---- MODULE Spec2Model ----
(***************************************************************************)
(* Model of the batch scripting engine of openschichtplaner5-cli           *)
(* (src/src/openschichtplaner5_cli/batch_operations.py): BatchCommand,     *)
(* BatchParser, BatchExecutor and the run report.                          *)
(*                                                                         *)
(* Text is modelled character by character: a Python str is a sequence of  *)
(* one-character strings, so that str.replace, str.split, str.strip and    *)
(* the regular expressions of BatchParser.PATTERNS are computed, not       *)
(* assumed.  A Python dict is a sequence of [k, v] entries in insertion    *)
(* order (the order `for var, value in context.items()` visits them).      *)
(***************************************************************************)
EXTENDS Integers, Sequences, FiniteSets, TLC

(***************************************************************************)
(* Characters and the str methods the engine uses.                         *)
(***************************************************************************)
NL == "\n"
TAB == "\t"
Whitespace == {" ", NL, TAB}
Digits == <<"0", "1", "2", "3", "4", "5", "6", "7", "8", "9">>
LowerCase == <<"a", "b", "c", "d", "e", "f", "g", "h", "i", "j", "k", "l", "m",
               "n", "o", "p", "q", "r", "s", "t", "u", "v", "w", "x", "y", "z">>
UpperCase == <<"A", "B", "C", "D", "E", "F", "G", "H", "I", "J", "K", "L", "M",
               "N", "O", "P", "Q", "R", "S", "T", "U", "V", "W", "X", "Y", "Z">>
Range(f) == {f[j] : j \in DOMAIN f}
IsDigitChar(c) == c \in Range(Digits)
IsWordChar(c) == c \in Range(Digits) \cup Range(LowerCase) \cup Range(UpperCase) \cup {"_"}

upper_char(c) ==
    IF c \in Range(LowerCase)
    THEN UpperCase[CHOOSE j \in DOMAIN LowerCase : LowerCase[j] = c]
    ELSE c
lower_char(c) ==
    IF c \in Range(UpperCase)
    THEN LowerCase[CHOOSE j \in DOMAIN UpperCase : UpperCase[j] = c]
    ELSE c
upper(s) == [j \in DOMAIN s |-> upper_char(s[j])]
lower(s) == [j \in DOMAIN s |-> lower_char(s[j])]

Drop(s, n) == SubSeq(s, n + 1, Len(s))
Take(s, n) == SubSeq(s, 1, n)
startswith(s, p) == Len(s) >= Len(p) /\ Take(s, Len(p)) = p
endswith(s, p) == Len(s) >= Len(p) /\ Drop(s, Len(s) - Len(p)) = p

\* number of leading characters of s that satisfy / do not satisfy "whitespace"
RECURSIVE LeadingSpaces(_)
LeadingSpaces(s) ==
    IF s # <<>> /\ s[1] \in Whitespace THEN 1 + LeadingSpaces(Tail(s)) ELSE 0
RECURSIVE TrailingSpaces(_)
TrailingSpaces(s) ==
    IF s # <<>> /\ s[Len(s)] \in Whitespace
    THEN 1 + TrailingSpaces(Take(s, Len(s) - 1)) ELSE 0
RECURSIVE LeadingWord(_)
LeadingWord(s) ==
    IF s # <<>> /\ s[1] \notin Whitespace THEN 1 + LeadingWord(Tail(s)) ELSE 0
RECURSIVE LeadingWordChars(_)
LeadingWordChars(s) ==
    IF s # <<>> /\ IsWordChar(s[1]) THEN 1 + LeadingWordChars(Tail(s)) ELSE 0

lstrip(s) == Drop(s, LeadingSpaces(s))
rstrip(s) == Take(s, Len(s) - TrailingSpaces(s))
strip(s) == rstrip(lstrip(s))

\* str.split() without arguments: the maximal runs of non-whitespace
RECURSIVE split(_)
split(s) ==
    LET t == lstrip(s) IN
    IF t = <<>> THEN <<>>
    ELSE <<Take(t, LeadingWord(t))>> \o split(Drop(t, LeadingWord(t)))

\* str.split(sep) for a non-empty separator: always at least one piece
RECURSIVE split_on(_, _)
split_on(s, sep) ==
    IF \E j \in 1..(Len(s) - Len(sep) + 1) : SubSeq(s, j, j + Len(sep) - 1) = sep
    THEN LET j == CHOOSE j \in 1..(Len(s) - Len(sep) + 1) :
                     /\ SubSeq(s, j, j + Len(sep) - 1) = sep
                     /\ \A h \in 1..(j - 1) : SubSeq(s, h, h + Len(sep) - 1) # sep
         IN <<Take(s, j - 1)>> \o split_on(Drop(s, j - 1 + Len(sep)), sep)
    ELSE <<s>>

contains(s, sub) ==
    \E j \in 1..(Len(s) - Len(sub) + 1) : SubSeq(s, j, j + Len(sub) - 1) = sub

\* str.replace(old, new) for a non-empty old: leftmost, non-overlapping
RECURSIVE replace(_, _, _)
replace(s, old, new) ==
    IF Len(s) < Len(old) THEN s
    ELSE IF Take(s, Len(old)) = old
         THEN new \o replace(Drop(s, Len(old)), old, new)
         ELSE <<s[1]>> \o replace(Tail(s), old, new)

\* sep.join(parts)
RECURSIVE join(_, _)
join(sep, parts) ==
    IF parts = <<>> THEN <<>>
    ELSE IF Len(parts) = 1 THEN parts[1]
    ELSE parts[1] \o sep \o join(sep, Tail(parts))

isdigit(s) == s # <<>> /\ \A j \in DOMAIN s : IsDigitChar(s[j])

DigitValue(c) == (CHOOSE j \in DOMAIN Digits : Digits[j] = c) - 1
\* int(s) for an all-digit s
RECURSIVE int(_)
int(s) ==
    IF s = <<>> THEN 0
    ELSE 10 * int(Take(s, Len(s) - 1)) + DigitValue(s[Len(s)])
\* str(n) for a natural number n
RECURSIVE str_int(_)
str_int(n) ==
    IF n < 10 THEN <<Digits[n + 1]>>
    ELSE str_int(n \div 10) \o <<Digits[(n % 10) + 1]>>

(***************************************************************************)
(* Values.  Every Python value the engine stores is kept with its type tag *)
(* t and s = str(value), the text that ${name} substitution inserts.       *)
(***************************************************************************)
StrValue(s) == [t |-> "str", s |-> s]
IntValue(n) == [t |-> "int", s |-> str_int(n)]
BoolValue(b) == [t |-> "bool", s |-> IF b THEN <<"T", "r", "u", "e">>
                                          ELSE <<"F", "a", "l", "s", "e">>]

\* float(expr) succeeds: [sign] digits [. [digits]] or [sign] . digits
\* (exponents, inf and nan are outside the scripts explored here)
IsFloatLiteral(expr) ==
    LET u == IF expr # <<>> /\ expr[1] \in {"+", "-"} THEN Tail(expr) ELSE expr
        parts == split_on(u, <<".">>)
    IN  /\ u # <<>>
        /\ Len(parts) <= 2
        /\ \A j \in DOMAIN parts : \A h \in DOMAIN parts[j] : IsDigitChar(parts[j][h])
        /\ \E j \in DOMAIN parts : parts[j] # <<>>
\* leading zeros of the integer part and trailing zeros of the fraction go
RECURSIVE StripLeadingZeros(_)
StripLeadingZeros(s) ==
    IF Len(s) > 1 /\ s[1] = "0" THEN StripLeadingZeros(Tail(s)) ELSE s
RECURSIVE StripTrailingZeros(_)
StripTrailingZeros(s) ==
    IF Len(s) > 1 /\ s[Len(s)] = "0" THEN StripTrailingZeros(Take(s, Len(s) - 1)) ELSE s
\* str(float(expr))
FloatValue(expr) ==
    LET neg == expr[1] = "-"
        u == IF expr[1] \in {"+", "-"} THEN Tail(expr) ELSE expr
        parts == split_on(u, <<".">>)
        ip == StripLeadingZeros(IF parts[1] = <<>> THEN <<"0">> ELSE parts[1])
        fp == StripTrailingZeros(IF Len(parts) < 2 \/ parts[2] = <<>> THEN <<"0">>
                                 ELSE parts[2])
    IN  [t |-> "float", s |-> (IF neg THEN <<"-">> ELSE <<>>) \o ip \o <<".">> \o fp]

(***************************************************************************)
(* dict: a sequence of entries [k, v] in insertion order.                  *)
(***************************************************************************)
has_key(d, k) == \E j \in DOMAIN d : d[j].k = k
dict_get(d, k, default) ==
    IF has_key(d, k) THEN d[CHOOSE j \in DOMAIN d : d[j].k = k].v ELSE default
\* d[k] = v: an existing key keeps its position, a new key goes last
dict_set(d, k, v) ==
    IF has_key(d, k)
    THEN [j \in DOMAIN d |-> IF d[j].k = k THEN [k |-> k, v |-> v] ELSE d[j]]
    ELSE Append(d, [k |-> k, v |-> v])

VarRef(var) == <<"$", "{">> \o var \o <<"}">>
\* for var, value in context.items(): text = text.replace(f"${{{var}}}", str(value))
RECURSIVE ExpandText(_, _)
ExpandText(text, context_items) ==
    IF context_items = <<>> THEN text
    ELSE ExpandText(replace(text, VarRef(context_items[1].k), context_items[1].v.s),
                    Tail(context_items))

(***************************************************************************)
(* BatchCommand.                                                           *)
(***************************************************************************)
BatchCommand(line_number, command, args, options, variables) ==
    [line_number |-> line_number, command |-> command, args |-> args,
     options |-> options, variables |-> variables]

\* (mutant) the args are passed on as they are
expand_variables_ArgsVerbatim(cmd, context_items) ==
    BatchCommand(cmd.line_number,
                 ExpandText(cmd.command, context_items),
                 cmd.args,
                 cmd.options,
                 cmd.variables)
\* (mutant) the values of the options are expanded as the args are
expand_variables_ExpandsOptions(cmd, context_items) ==
    BatchCommand(cmd.line_number,
                 ExpandText(cmd.command, context_items),
                 [j \in DOMAIN cmd.args |-> ExpandText(cmd.args[j], context_items)],
                 [j \in DOMAIN cmd.options |->
                     [k |-> cmd.options[j].k,
                      v |-> IF cmd.options[j].v.t = "str"
                            THEN StrValue(ExpandText(cmd.options[j].v.s, context_items))
                            ELSE cmd.options[j].v]],
                 cmd.variables)
\* BatchCommand.expand_variables(context): a new command; options and
\* variables are passed on as they are
expand_variables(cmd, context_items) ==
    BatchCommand(cmd.line_number,
                 ExpandText(cmd.command, context_items),
                 [j \in DOMAIN cmd.args |-> ExpandText(cmd.args[j], context_items)],
                 cmd.options,
                 cmd.variables)

(***************************************************************************)
(* BatchParser.                                                            *)
(***************************************************************************)
\* PATTERNS["comment"]: ^\s*#.*$
match_comment(line) == startswith(lstrip(line), <<"#">>)

\* PATTERNS["variable"]: ^\s*SET\s+(\w+)\s*=\s*(.+)$  (IGNORECASE)
match_variable(line) ==
    LET l == lstrip(line)
        r1 == Drop(l, 3)
        r2 == lstrip(r1)
        n == LeadingWordChars(r2)
        r3 == lstrip(Drop(r2, n))
        r4 == Tail(r3)
    IN  IF /\ upper(Take(l, 3)) = <<"S", "E", "T">>
           /\ LeadingSpaces(r1) >= 1
           /\ n >= 1
           /\ startswith(r3, <<"=">>)
           /\ r4 # <<>>
        THEN [ok |-> TRUE, name |-> Take(r2, n),
              value |-> IF lstrip(r4) # <<>> THEN lstrip(r4) ELSE <<r4[Len(r4)]>>]
        ELSE [ok |-> FALSE, name |-> <<>>, value |-> <<>>]

\* PATTERNS["for_loop"]: ^\s*FOR\s+(\w+)\s+IN\s+(.+)\s*:$  (IGNORECASE)
match_for_loop(line) ==
    LET l == lstrip(line)
        r1 == Drop(l, 3)
        r2 == lstrip(r1)
        n == LeadingWordChars(r2)
        r3 == Drop(r2, n)
        r4 == lstrip(r3)
        r5 == Drop(r4, 2)
        body == Take(r5, Len(r5) - 1)
    IN  IF /\ upper(Take(l, 3)) = <<"F", "O", "R">>
           /\ LeadingSpaces(r1) >= 1
           /\ n >= 1
           /\ LeadingSpaces(r3) >= 1
           /\ upper(Take(r4, 2)) = <<"I", "N">>
           /\ endswith(r5, <<":">>)
           /\ LeadingSpaces(body) >= 1
           /\ Len(body) >= 2
        THEN [ok |-> TRUE, name |-> Take(r2, n),
              value |-> IF lstrip(body) # <<>> THEN lstrip(body)
                        ELSE <<body[Len(body)]>>]
        ELSE [ok |-> FALSE, name |-> <<>>, value |-> <<>>]

\* str.strip("{}")
RECURSIVE strip_braces(_)
strip_braces(s) ==
    IF s # <<>> /\ s[1] \in {"{", "}"} THEN strip_braces(Tail(s))
    ELSE IF s # <<>> /\ s[Len(s)] \in {"{", "}"} THEN strip_braces(Take(s, Len(s) - 1))
    ELSE s

\* (mutant) the quotes are removed and the inner text is classified further
_evaluate_value_UnquotedFirst(expr, context_items) ==
    LET inner == IF \/ startswith(expr, <<"\"">>) /\ endswith(expr, <<"\"">>)
                    \/ startswith(expr, <<"'">>) /\ endswith(expr, <<"'">>)
                 THEN SubSeq(expr, 2, Len(expr) - 1)
                 ELSE expr
    IN  IF isdigit(inner) THEN IntValue(int(inner))
        ELSE IF IsFloatLiteral(inner) THEN FloatValue(inner)
        ELSE IF lower(inner) \in {<<"t", "r", "u", "e">>, <<"f", "a", "l", "s", "e">>}
        THEN BoolValue(lower(inner) = <<"t", "r", "u", "e">>)
        ELSE IF startswith(inner, <<"$">>)
        THEN dict_get(context_items, strip_braces(Tail(inner)), StrValue(inner))
        ELSE StrValue(inner)
\* BatchParser._evaluate_value
_evaluate_value(expr, context_items) ==
    IF \/ startswith(expr, <<"\"">>) /\ endswith(expr, <<"\"">>)
       \/ startswith(expr, <<"'">>) /\ endswith(expr, <<"'">>)
    THEN StrValue(SubSeq(expr, 2, Len(expr) - 1))
    ELSE IF isdigit(expr) THEN IntValue(int(expr))
    ELSE IF IsFloatLiteral(expr) THEN FloatValue(expr)
    ELSE IF lower(expr) \in {<<"t", "r", "u", "e">>, <<"f", "a", "l", "s", "e">>}
    THEN BoolValue(lower(expr) = <<"t", "r", "u", "e">>)
    ELSE IF startswith(expr, <<"$">>)
    THEN dict_get(context_items, strip_braces(Tail(expr)), StrValue(expr))
    ELSE StrValue(expr)

\* (mutant) a comma does not separate items
_parse_list_SingleOnly(expr, context_items) ==
    LET parts == split_on(expr, <<".", ".">>)
    IN  IF /\ contains(expr, <<".", ".">>)
           /\ Len(parts) = 2 /\ isdigit(parts[1]) /\ isdigit(parts[2])
        THEN [j \in 1..(IF int(parts[2]) >= int(parts[1])
                        THEN int(parts[2]) - int(parts[1]) + 1 ELSE 0)
                 |-> IntValue(int(parts[1]) + j - 1)]
        ELSE <<_evaluate_value(expr, context_items)>>
\* (mutant) range(a, b): the upper endpoint is left out
_parse_list_Exclusive(expr, context_items) ==
    LET parts == split_on(expr, <<".", ".">>)
        items == split_on(expr, <<",">>)
    IN  IF /\ contains(expr, <<".", ".">>)
           /\ Len(parts) = 2 /\ isdigit(parts[1]) /\ isdigit(parts[2])
        THEN [j \in 1..(IF int(parts[2]) > int(parts[1])
                        THEN int(parts[2]) - int(parts[1]) ELSE 0)
                 |-> IntValue(int(parts[1]) + j - 1)]
        ELSE IF contains(expr, <<",">>)
        THEN [j \in DOMAIN items |-> _evaluate_value(strip(items[j]), context_items)]
        ELSE <<_evaluate_value(expr, context_items)>>
\* BatchParser._parse_list
_parse_list(expr, context_items) ==
    LET parts == split_on(expr, <<".", ".">>)
        items == split_on(expr, <<",">>)
    IN  IF /\ contains(expr, <<".", ".">>)
           /\ Len(parts) = 2 /\ isdigit(parts[1]) /\ isdigit(parts[2])
        THEN [j \in 1..(IF int(parts[2]) >= int(parts[1])
                        THEN int(parts[2]) - int(parts[1]) + 1 ELSE 0)
                 |-> IntValue(int(parts[1]) + j - 1)]
        ELSE IF contains(expr, <<",">>)
        THEN [j \in DOMAIN items |-> _evaluate_value(strip(items[j]), context_items)]
        ELSE <<_evaluate_value(expr, context_items)>>

\* BatchParser._get_indent_level
_get_indent_level(line) == Len(line) - Len(lstrip(line))

\* (mutant) a token with a single dash is kept as a positional arg as well
RECURSIVE ParseTokens_KeepsFlags(_, _, _, _)
ParseTokens_KeepsFlags(parts, j, args, options) ==
    IF j > Len(parts) THEN [args |-> args, options |-> options]
    ELSE IF startswith(parts[j], <<"-", "-">>)
    THEN IF j + 1 <= Len(parts) /\ ~startswith(parts[j + 1], <<"-">>)
         THEN ParseTokens_KeepsFlags(parts, j + 2, args,
                          dict_set(options, Drop(parts[j], 2), StrValue(parts[j + 1])))
         ELSE ParseTokens_KeepsFlags(parts, j + 1, args,
                          dict_set(options, Drop(parts[j], 2), BoolValue(TRUE)))
    ELSE IF startswith(parts[j], <<"-">>)
    THEN ParseTokens_KeepsFlags(parts, j + 1, Append(args, parts[j]),
                     dict_set(options, Drop(parts[j], 1), BoolValue(TRUE)))
    ELSE ParseTokens_KeepsFlags(parts, j + 1, Append(args, parts[j]), options)
\* the token loop of _parse_command_line: parts[j..] classified into
\* positional args and options
RECURSIVE ParseTokens(_, _, _, _)
ParseTokens(parts, j, args, options) ==
    IF j > Len(parts) THEN [args |-> args, options |-> options]
    ELSE IF startswith(parts[j], <<"-", "-">>)
    THEN IF j + 1 <= Len(parts) /\ ~startswith(parts[j + 1], <<"-">>)
         THEN ParseTokens(parts, j + 2, args,
                          dict_set(options, Drop(parts[j], 2), StrValue(parts[j + 1])))
         ELSE ParseTokens(parts, j + 1, args,
                          dict_set(options, Drop(parts[j], 2), BoolValue(TRUE)))
    ELSE IF startswith(parts[j], <<"-">>)
    THEN ParseTokens(parts, j + 1, args,
                     dict_set(options, Drop(parts[j], 1), BoolValue(TRUE)))
    ELSE ParseTokens(parts, j + 1, Append(args, parts[j]), options)

\* BatchParser._parse_command_line: <<>> for None, else <<the command>>
_parse_command_line(line, line_number, context_items) ==
    IF line = <<>> \/ startswith(line, <<"#">>) THEN <<>>
    ELSE LET parts == split(ExpandText(line, context_items)) IN
         IF parts = <<>> THEN <<>>
         ELSE LET t == ParseTokens(parts, 2, <<>>, <<>>) IN
              <<BatchCommand(line_number, parts[1], t.args, t.options, context_items)>>

\* (mutant) a line without indentation always ends the body
RECURSIVE LoopBodyEnd_IndentedOnly(_, _, _)
LoopBodyEnd_IndentedOnly(file_lines, j, indent_level) ==
    IF j > Len(file_lines) THEN j
    ELSE IF _get_indent_level(file_lines[j]) < indent_level
            \/ _get_indent_level(file_lines[j]) = 0 THEN j
    ELSE LoopBodyEnd_IndentedOnly(file_lines, j + 1, indent_level)
\* (mutant) the line that ends the body is passed over
RECURSIVE LoopBodyEnd_SkipsEnd(_, _, _)
LoopBodyEnd_SkipsEnd(file_lines, j, indent_level) ==
    IF j > Len(file_lines) THEN j
    ELSE IF _get_indent_level(file_lines[j]) < indent_level THEN j + 1
    ELSE LoopBodyEnd_SkipsEnd(file_lines, j + 1, indent_level)
\* the body capture of parse_file: the first index at or after j whose line is
\* indented less than indent_level, or Len(lines) + 1
RECURSIVE LoopBodyEnd(_, _, _)
LoopBodyEnd(file_lines, j, indent_level) ==
    IF j > Len(file_lines) THEN j
    ELSE IF _get_indent_level(file_lines[j]) < indent_level THEN j
    ELSE LoopBodyEnd(file_lines, j + 1, indent_level)

\* for cmd_line in loop_commands: the commands one iteration appends
RECURSIVE ParseLoopBody(_, _, _)
ParseLoopBody(loop_commands, line_number, loop_context) ==
    IF loop_commands = <<>> THEN <<>>
    ELSE _parse_command_line(strip(loop_commands[1]), line_number, loop_context)
         \o ParseLoopBody(Tail(loop_commands), line_number, loop_context)

\* for item in items: the commands the whole loop appends
RECURSIVE UnrollLoop(_, _, _, _, _)
UnrollLoop(items, var_name, loop_commands, line_number, context_items) ==
    IF items = <<>> THEN <<>>
    ELSE ParseLoopBody(loop_commands, line_number,
                       dict_set(context_items, var_name, items[1]))
         \o UnrollLoop(Tail(items), var_name, loop_commands, line_number, context_items)

(***************************************************************************)
(* BatchResult and the executor's handlers.  A handler is computed from    *)
(* the expanded command, the run-time context and what the environment     *)
(* does while the command runs: env.raises when the collaborator (data     *)
(* engine, exporter) raises, env.count the number of rows it returns,      *)
(* env.elapsed the milliseconds that pass.  The value of a handler is      *)
(*   raised  - the handler raised an exception                             *)
(*   output  - the returned value / error - str(exception)                 *)
(*   context - self.context when the handler is left                       *)
(*   calls   - the collaborator calls it made, in order                    *)
(***************************************************************************)
NoneValue == [t |-> "None", s |-> <<"N", "o", "n", "e">>]

MsgQueryRequires ==
    <<"Q", "u", "e", "r", "y", " ", "r", "e", "q", "u", "i", "r", "e", "s",
      " ", "t", "a", "b", "l", "e", " ", "n", "a", "m", "e">>
MsgExportRequires ==
    <<"E", "x", "p", "o", "r", "t", " ", "r", "e", "q", "u", "i", "r", "e",
      "s", ":", " ", "t", "a", "b", "l", "e", " ", "f", "o", "r", "m", "a",
      "t", " ", "f", "i", "l", "e", "n", "a", "m", "e">>
MsgSetRequires ==
    <<"S", "E", "T", " ", "r", "e", "q", "u", "i", "r", "e", "s", ":", " ",
      "v", "a", "r", "i", "a", "b", "l", "e", " ", "v", "a", "l", "u", "e">>
MsgUnknownCommand ==
    <<"U", "n", "k", "n", "o", "w", "n", " ", "c", "o", "m", "m", "a", "n",
      "d", ":", " ">>
MsgInvalidLiteral ==
    <<"i", "n", "v", "a", "l", "i", "d", " ", "l", "i", "t", "e", "r", "a",
      "l", " ", "f", "o", "r", " ", "i", "n", "t", "(", ")", " ", "w", "i",
      "t", "h", " ", "b", "a", "s", "e", " ", "1", "0", ":", " ">>
\* str() of an exception raised inside a collaborator
MsgCollaborator == <<"c", "o", "l", "l", "a", "b", "o", "r", "a", "t", "o", "r">>

Call(target, kind, what, with) ==
    [target |-> target, kind |-> kind, what |-> what, with |-> with]

Raised(message, context_items, calls) ==
    [raised |-> TRUE, output |-> NoneValue, error |-> StrValue(message),
     context |-> context_items, calls |-> calls]
Returned(output, context_items, calls) ==
    [raised |-> FALSE, output |-> output, error |-> NoneValue,
     context |-> context_items, calls |-> calls]

\* int(x) succeeds for the option value x: True, or [sign] digits
IsIntLiteral(v) ==
    \/ v.t = "bool"
    \/ isdigit(IF v.s # <<>> /\ v.s[1] \in {"+", "-"} THEN Tail(v.s) ELSE v.s)

\* the where_ options of a command, in dict order, as [k |-> field, v |-> value]
RECURSIVE QueryFilters(_)
QueryFilters(options) ==
    IF options = <<>> THEN <<>>
    ELSE (IF startswith(options[1].k, <<"w", "h", "e", "r", "e", "_">>)
          THEN <<[k |-> Drop(options[1].k, 6), v |-> options[1].v.s]>>
          ELSE <<>>) \o QueryFilters(Tail(options))

\* result.to_dict() of the data engine; only its row count is modelled
QueryResultValue(count) ==
    [t |-> "dict", s |-> <<"{", "c", "o", "u", "n", "t", ":">> \o str_int(count) \o <<"}">>]

\* (mutant) the binding of --var is made before the query is executed
_execute_query_StoresFirst(command, context_items, env) ==
    IF command.args = <<>> THEN Raised(MsgQueryRequires, context_items, <<>>)
    ELSE
    LET select == Call("engine", "select", command.args[1], QueryFilters(command.options))
        execute == Call("engine", "execute", command.args[1], <<>>)
        stored == IF has_key(command.options, <<"v", "a", "r">>)
                  THEN dict_set(context_items,
                                dict_get(command.options, <<"v", "a", "r">>, NoneValue).s,
                                QueryResultValue(env.count))
                  ELSE context_items
    IN  IF env.raises THEN Raised(MsgCollaborator, stored, <<select, execute>>)
        ELSE Returned(IntValue(env.count), stored, <<select, execute>>)
\* BatchExecutor._execute_query
_execute_query(command, context_items, env) ==
    IF command.args = <<>> THEN Raised(MsgQueryRequires, context_items, <<>>)
    ELSE
    LET limit == dict_get(command.options, <<"l", "i", "m", "i", "t">>, NoneValue)
        has_limit == has_key(command.options, <<"l", "i", "m", "i", "t">>)
        select == Call("engine", "select", command.args[1], QueryFilters(command.options))
        execute == Call("engine", "execute", command.args[1],
                        IF has_limit THEN <<[k |-> <<"l", "i", "m", "i", "t">>, v |-> limit.s]>>
                        ELSE <<>>)
    IN  IF has_limit /\ ~IsIntLiteral(limit)
        THEN Raised(MsgInvalidLiteral \o <<"'">> \o limit.s \o <<"'">>,
                    context_items, <<select>>)
        ELSE IF env.raises
        THEN Raised(MsgCollaborator, context_items, <<select, execute>>)
        ELSE Returned(IntValue(env.count),
                      IF has_key(command.options, <<"v", "a", "r">>)
                      THEN dict_set(context_items,
                                    dict_get(command.options, <<"v", "a", "r">>, NoneValue).s,
                                    QueryResultValue(env.count))
                      ELSE context_items,
                      <<select, execute>>)

\* (mutant) the exporter is called before the arguments are counted
_execute_export_CallsFirst(command, context_items, env) ==
    LET export == Call("exporter", "export", join(<<" ">>, command.args),
                       <<[k |-> <<>>, v |-> str_int(env.count)]>>)
    IN  IF Len(command.args) < 3 THEN Raised(MsgExportRequires, context_items, <<export>>)
        ELSE IF env.raises THEN Raised(MsgCollaborator, context_items, <<export>>)
        ELSE Returned(StrValue(command.args[3]), context_items, <<export>>)
\* BatchExecutor._execute_export
_execute_export(command, context_items, env) ==
    IF Len(command.args) < 3 THEN Raised(MsgExportRequires, context_items, <<>>)
    ELSE
    LET export == Call("exporter", "export", command.args[3],
                       <<[k |-> command.args[2], v |-> str_int(env.count)]>>)
    IN  IF env.raises THEN Raised(MsgCollaborator, context_items, <<export>>)
        ELSE Returned(StrValue(<<"E", "x", "p", "o", "r", "t", "e", "d", " ">>
                               \o str_int(env.count)
                               \o <<" ", "r", "e", "c", "o", "r", "d", "s", " ", "t", "o", " ">>
                               \o command.args[3]),
                      context_items, <<export>>)

\* (mutant) no coercion: the joined text is stored
SetValue_AlwaysString(value) == StrValue(value)
\* the coercion of _execute_set: all digits -> int, true/false -> bool, else str
SetValue(value) ==
    IF isdigit(value) THEN IntValue(int(value))
    ELSE IF lower(value) \in {<<"t", "r", "u", "e">>, <<"f", "a", "l", "s", "e">>}
    THEN BoolValue(lower(value) = <<"t", "r", "u", "e">>)
    ELSE StrValue(value)

\* BatchExecutor._execute_set
_execute_set(command, context_items, env) ==
    IF Len(command.args) < 2 THEN Raised(MsgSetRequires, context_items, <<>>)
    ELSE
    LET var_name == command.args[1]
        value == SetValue(join(<<" ">>, Tail(command.args)))
    IN  Returned(StrValue(<<"S", "e", "t", " ">> \o var_name \o <<" ", "=", " ">> \o value.s),
                 dict_set(context_items, var_name, value), <<>>)

\* (mutant) the message is also expanded against the snapshot on the record
_execute_print_UsesSnapshot(command, context_items, env) ==
    LET message == ExpandText(join(<<" ">>, command.args),
                              context_items \o command.variables)
    IN  Returned(StrValue(message), context_items,
                 <<Call("console", "print", message, <<>>)>>)
\* BatchExecutor._execute_print
_execute_print(command, context_items, env) ==
    LET message == ExpandText(join(<<" ">>, command.args), context_items)
    IN  Returned(StrValue(message), context_items,
                 <<Call("console", "print", message, <<>>)>>)

\* (mutant) the message names the upper-cased command
UnknownCommand_Upper(command, context_items, env) ==
    Raised(MsgUnknownCommand \o upper(command.command), context_items, <<>>)
\* the else branch of _execute_command
UnknownCommand(command, context_items, env) ==
    Raised(MsgUnknownCommand \o command.command, context_items, <<>>)

Handlers == {"QUERY", "EXPORT", "SET", "PRINT", "UNKNOWN"}
\* the if/elif chain of _execute_command on expanded.command.upper()
Route(expanded) ==
    LET name == upper(expanded.command) IN
    IF name = <<"Q", "U", "E", "R", "Y">> THEN "QUERY"
    ELSE IF name = <<"E", "X", "P", "O", "R", "T">> THEN "EXPORT"
    ELSE IF name = <<"S", "E", "T">> THEN "SET"
    ELSE IF name = <<"P", "R", "I", "N", "T">> THEN "PRINT"
    ELSE "UNKNOWN"

RunHandler(handler, expanded, context_items, env) ==
    CASE handler = "QUERY" -> _execute_query(expanded, context_items, env)
      [] handler = "EXPORT" -> _execute_export(expanded, context_items, env)
      [] handler = "SET" -> _execute_set(expanded, context_items, env)
      [] handler = "PRINT" -> _execute_print(expanded, context_items, env)
      [] OTHER -> UnknownCommand(expanded, context_items, env)

BatchResult(command, success, output, error, duration) ==
    [command |-> command, success |-> success, output |-> output,
     error |-> error, duration |-> duration]

\* (mutant) the result carries the expanded command instead of the record
_execute_command_RecordsExpanded(command, context_items, env) ==
    LET expanded == expand_variables(command, context_items)
        h == RunHandler(Route(expanded), expanded, context_items, env)
        duration == env.elapsed
    IN  [result |-> IF h.raised
                    THEN BatchResult(expanded, FALSE, NoneValue, h.error, duration)
                    ELSE BatchResult(expanded, TRUE, h.output, NoneValue, duration),
         context |-> h.context,
         calls |-> h.calls]
\* BatchExecutor._execute_command: the try block and its except clause.
\* The value keeps the handler's context and calls next to the BatchResult.
_execute_command(command, context_items, env) ==
    LET expanded == expand_variables(command, context_items)
        h == RunHandler(Route(expanded), expanded, context_items, env)
        duration == env.elapsed
    IN  [result |-> IF h.raised
                    THEN BatchResult(command, FALSE, NoneValue, h.error, duration)
                    ELSE BatchResult(command, TRUE, h.output, NoneValue, duration),
         context |-> h.context,
         calls |-> h.calls]

(***************************************************************************)
(* The summary and the run report.  Durations are counted in milliseconds, *)
(* the precision round(..., 3) keeps.                                      *)
(***************************************************************************)
RECURSIVE SumDurations(_)
SumDurations(rs) == IF rs = <<>> THEN 0 ELSE rs[1].duration + SumDurations(Tail(rs))
\* round(total / n, 3) in milliseconds: to nearest, ties to even
RoundedQuotient(total, n) ==
    LET q == total \div n
        r == total % n
    IN  IF 2 * r < n THEN q
        ELSE IF 2 * r > n THEN q + 1
        ELSE IF q % 2 = 0 THEN q ELSE q + 1

\* (mutant) `failed` counts the results that carry no error
get_summary_Inverted(rs) ==
    LET successful == Cardinality({j \in DOMAIN rs : rs[j].success})
        failed == Cardinality({j \in DOMAIN rs : rs[j].error = NoneValue})
        total_duration == SumDurations(rs)
    IN  [total_commands |-> Len(rs),
         successful |-> successful,
         failed |-> failed,
         total_duration |-> total_duration,
         avg_duration |-> IF rs # <<>> THEN RoundedQuotient(total_duration, Len(rs)) ELSE 0]
\* BatchExecutor.get_summary
get_summary(rs) ==
    LET successful == Cardinality({j \in DOMAIN rs : rs[j].success})
        failed == Len(rs) - successful
        total_duration == SumDurations(rs)
    IN  [total_commands |-> Len(rs),
         successful |-> successful,
         failed |-> failed,
         total_duration |-> total_duration,
         avg_duration |-> IF rs # <<>> THEN RoundedQuotient(total_duration, Len(rs)) ELSE 0]

\* BatchResult.to_dict
to_dict(r) ==
    [line |-> r.command.line_number,
     command |-> r.command.command \o <<" ">> \o join(<<" ">>, r.command.args),
     success |-> r.success,
     duration |-> r.duration,
     error |-> r.error]

\* the dict export_results serialises; the timestamp is the wall clock's
ReportData(rs, context_items) ==
    [timestamp |-> "now",
     summary |-> get_summary(rs),
     results |-> [j \in DOMAIN rs |-> to_dict(rs[j])],
     context |-> context_items]

\* pathlib's PurePath.suffix: from the last dot of the final component, unless
\* that dot is its first or its last character
suffix(filepath) ==
    LET comps == split_on(filepath, <<"/">>)
        name == comps[Len(comps)]
        dots == {j \in DOMAIN name : name[j] = "."}
        last == CHOOSE j \in dots : \A h \in dots : h <= j
    IN  IF dots # {} /\ 1 < last /\ last < Len(name) THEN Drop(name, last - 1) ELSE <<>>

\* (mutant) `else` in place of `elif`: YAML for every other suffix
ReportFormat_DefaultYaml(filepath) ==
    IF suffix(filepath) = <<".", "j", "s", "o", "n">> THEN "json" ELSE "yaml"
\* the serialiser export_results picks for a path: "" when it writes nothing
ReportFormat(filepath) ==
    IF suffix(filepath) = <<".", "j", "s", "o", "n">> THEN "json"
    ELSE IF suffix(filepath) = <<".", "y", "a", "m", "l">> THEN "yaml"
    ELSE ""

(***************************************************************************)
(* The scripts and collaborator answers explored.                          *)
(***************************************************************************)
MaxCommands == 2
MaxInt == 2
MaxItems == 3
MaxBatches == 2

Line(text) == text \o <<NL>>
\* generic command lines: one that stores a variable, one that reads it, the
\* two that reach a collaborator, a missing argument and an unknown command
CommandLines ==
    {Line(<<"S", "E", "T", " ", "n", " ", "5">>),
     Line(<<"P", "R", "I", "N", "T", " ", "n", "=", "$", "{", "n", "}">>),
     Line(<<"Q", "U", "E", "R", "Y", " ", "t", " ", "-", "-", "v", "a", "r", " ", "r">>),
     Line(<<"E", "X", "P", "O", "R", "T", " ", "t", " ", "c", "s", "v", " ", "o", "u", "t">>),
     Line(<<"Q", "U", "E", "R", "Y">>),
     Line(<<"B", "o", "g", "u", "s">>)}
FlatScripts == UNION {[1..n -> CommandLines] : n \in 1..MaxCommands}

ForHeader(var_name, items_expr) ==
    Line(<<"F", "O", "R", " ">> \o var_name \o <<" ", "I", "N", " ">> \o items_expr \o <<":">>)
\* FOR i IN a..b: on line 2, its one-line body on line 3
RangeScript(a, b) ==
    <<Line(<<"#", " ", "r", "a", "n", "g", "e">>),
      ForHeader(<<"i">>, str_int(a) \o <<".", ".">> \o str_int(b)),
      Line(<<" ", " ", " ", " ", "P", "R", "I", "N", "T", " ", "$", "{", "i", "}">>)>>
\* endpoints on both sides of the step from one digit to two
RangeEndpoints == {8 + d : d \in 0..MaxInt}
RangeScripts == {RangeScript(a, b) : a \in RangeEndpoints, b \in RangeEndpoints}

Items == {<<"a">>, <<"b">>, <<"c">>, <<"7">>}
ItemLists == UNION {[1..n -> Items] : n \in 1..MaxItems}
\* FOR x IN items: with the body SET y = ${x}
ListScript(items) ==
    <<ForHeader(<<"x">>, join(<<",">>, items)),
      Line(<<" ", " ", " ", " ", "S", "E", "T", " ", "y", " ", "=", " ", "$", "{", "x", "}">>)>>
ListScripts == {ListScript(items) : items \in ItemLists}

\* a comment, a blank line, a top-level assignment and its use
AssignScript ==
    <<Line(<<"#", " ", "d", "e", "m", "o">>),
      Line(<<>>),
      Line(<<"S", "E", "T", " ", "X", " ", "=", " ", "5">>),
      Line(<<"P", "R", "I", "N", "T", " ", "$", "{", "X", "}">>)>>
\* a stored variable followed by the three handlers that check their argument
\* count, each one argument short, an unknown command and a complete EXPORT
ShortArgsScript ==
    <<Line(<<"S", "E", "T", " ", "v", " ", "1">>),
      Line(<<"Q", "U", "E", "R", "Y">>),
      Line(<<"E", "X", "P", "O", "R", "T", " ", "t", " ", "c", "s", "v">>),
      Line(<<"S", "E", "T", " ", "v">>),
      Line(<<"B", "o", "g", "u", "s">>),
      Line(<<"E", "X", "P", "O", "R", "T", " ", "t", " ", "c", "s", "v", " ", "o", "u", "t">>)>>
\* run-time SET of an integer, a boolean and a text of two words
TypedSetScript ==
    <<Line(<<"S", "E", "T", " ", "n", " ", "4", "2">>),
      Line(<<"S", "E", "T", " ", "b", " ", "T", "r", "u", "e">>),
      Line(<<"S", "E", "T", " ", "s", " ", "a", " ", " ", "b">>)>>
\* references to a variable before and after the command that stores it, to a
\* query result and to a name that is never bound; a QUERY without a table;
\* a command whose name is a reference
LateBindScript ==
    <<Line(<<"P", "R", "I", "N", "T", " ", "$", "{", "a", "}", "-", "$", "{", "u", "}">>),
      Line(<<"S", "E", "T", " ", "a", " ", "1">>),
      Line(<<"Q", "U", "E", "R", "Y", " ", "t", "$", "{", "a", "}", " ", "-", "-", "v", "a", "r", " ", "r">>),
      Line(<<"P", "R", "I", "N", "T", " ", "$", "{", "a", "}", "-", "$", "{", "u", "}", "-", "$", "{", "r", "}">>),
      Line(<<"Q", "U", "E", "R", "Y">>),
      Line(<<"S", "E", "T", " ", "c", " ", "p", "r", "i", "n", "t">>),
      Line(<<"$", "{", "c", "}", " ", "$", "{", "a", "}">>)>>
\* a stored variable referred to in the value of a filter option and of the
\* limit option
OptionRefScript ==
    <<Line(<<"S", "E", "T", " ", "n", " ", "5">>),
      Line(<<"Q", "U", "E", "R", "Y", " ", "t", " ", "-", "-", "w", "h", "e", "r", "e", "_", "f", " ", "$", "{", "n", "}">>),
      Line(<<"Q", "U", "E", "R", "Y", " ", "t", " ", "-", "-", "l", "i", "m", "i", "t", " ", "$", "{", "n", "}">>)>>
\* PRINT lines with a token that begins with a dash and with a named option
DashPrintScript ==
    <<Line(<<"P", "R", "I", "N", "T", " ", "t", "o", "t", "a", "l", " ", "-", "5", " ", "i", "t", "e", "m", "s">>),
      Line(<<"P", "R", "I", "N", "T", " ", "a", " ", "-", "-", "k", " ", "v", " ", "b", " ", "-", "x", " ", "c">>)>>
FixedScripts ==
    {AssignScript, ShortArgsScript, TypedSetScript, LateBindScript, OptionRefScript,
     DashPrintScript}

\* top-level assignments whose value refers to an earlier variable, inside
\* other text and on its own
EmbeddedRefScript ==
    <<Line(<<"S", "E", "T", " ", "A", " ", "=", " ", "5">>),
      Line(<<"S", "E", "T", " ", "B", " ", "=", " ", "x", "$", "{", "A", "}">>),
      Line(<<"S", "E", "T", " ", "C", " ", "=", " ", "$", "{", "A", "}">>),
      Line(<<"P", "R", "I", "N", "T", " ", "$", "{", "B", "}", " ", "$", "{", "C", "}">>)>>
\* a loop whose two body lines are separated by an empty line
BlankLineScript ==
    <<Line(<<"F", "O", "R", " ", "i", " ", "I", "N", " ", "1", ".", ".", "2", ":">>),
      Line(<<" ", " ", " ", " ", "P", "R", "I", "N", "T", " ", "a", "$", "{", "i", "}">>),
      Line(<<>>),
      Line(<<" ", " ", " ", " ", "P", "R", "I", "N", "T", " ", "b", "$", "{", "i", "}">>)>>
\* a loop variable that shadows an outer variable, next to a second outer
\* variable, both read in the body and again after the loop
ShadowScript ==
    <<Line(<<"S", "E", "T", " ", "i", " ", "=", " ", "9">>),
      Line(<<"S", "E", "T", " ", "k", " ", "=", " ", "3">>),
      Line(<<"F", "O", "R", " ", "i", " ", "I", "N", " ", "1", ".", ".", "2", ":">>),
      Line(<<" ", " ", " ", " ", "P", "R", "I", "N", "T", " ", "$", "{", "i", "}", "$", "{", "k", "}">>),
      Line(<<"P", "R", "I", "N", "T", " ", "$", "{", "i", "}", "$", "{", "k", "}">>)>>
\* tokens that begin with one, two and three dashes, and bare dashes
DashScript ==
    <<Line(<<"Q", "U", "E", "R", "Y", " ", "t", " ", "-", "-", "l", "i", "m", "i", "t", " ", "5", " ", "-", "v", " ", "-", "-", "v", "a", "r", " ", "r">>),
      Line(<<"P", "R", "I", "N", "T", " ", "a", " ", "-", " ", "b">>),
      Line(<<"Q", "U", "E", "R", "Y", " ", "t", " ", "-", "-", "-", "x">>),
      Line(<<"Q", "U", "E", "R", "Y", " ", "t", " ", "-", "-", " ", "u">>)>>
\* a loop whose body holds a second FOR header and its body
NestedLoopScript ==
    <<Line(<<"F", "O", "R", " ", "i", " ", "I", "N", " ", "1", ".", ".", "2", ":">>),
      Line(<<" ", " ", " ", " ", "F", "O", "R", " ", "j", " ", "I", "N", " ", "3", ".", ".", "4", ":">>),
      Line(<<" ", " ", " ", " ", " ", " ", " ", " ", "P", "R", "I", "N", "T", " ", "$", "{", "i", "}", "$", "{", "j", "}">>)>>
\* a list with an empty item, and a body line that is only a reference
EmptyItemScript ==
    <<Line(<<"F", "O", "R", " ", "x", " ", "I", "N", " ", "a", ",", ",", "b", ":">>),
      Line(<<" ", " ", " ", " ", "$", "{", "x", "}">>),
      Line(<<" ", " ", " ", " ", "#", " ", "n", "o", "t", "e">>),
      Line(<<" ", " ", " ", " ", "P", "R", "I", "N", "T", " ", "$", "{", "x", "}">>)>>
\* a list expression with both a range and a comma
MixedListScript ==
    <<Line(<<"F", "O", "R", " ", "x", " ", "I", "N", " ", "1", ".", ".", "3", ",", "5", ":">>),
      Line(<<" ", " ", " ", " ", "P", "R", "I", "N", "T", " ", "$", "{", "x", "}">>)>>
\* a single item, with a comment in the body
SingleItemScript ==
    <<Line(<<"F", "O", "R", " ", "x", " ", "I", "N", " ", "s", "o", "l", "o", ":">>),
      Line(<<" ", " ", " ", " ", "P", "R", "I", "N", "T", " ", "$", "{", "x", "}">>),
      Line(<<" ", " ", " ", " ", "#", " ", "n", "o", "t", "e">>),
      Line(<<" ", " ", " ", " ", "P", "R", "I", "N", "T", " ", "z">>)>>
\* one assignment per kind of literal, and a loop over literals of four kinds
EvalScript ==
    <<Line(<<"S", "E", "T", " ", "w", " ", "=", " ", "7">>),
      Line(<<"S", "E", "T", " ", "A", " ", "=", " ", "\"", "5", "\"">>),
      Line(<<"S", "E", "T", " ", "B", " ", "=", " ", "0", "0", "7">>),
      Line(<<"S", "E", "T", " ", "C", " ", "=", " ", "2", ".", "5", "0">>),
      Line(<<"S", "E", "T", " ", "D", " ", "=", " ", "T", "R", "U", "E">>),
      Line(<<"S", "E", "T", " ", "E", " ", "=", " ", "$", "w">>),
      Line(<<"S", "E", "T", " ", "F", " ", "=", " ", "$", "{", "w", "}">>),
      Line(<<"S", "E", "T", " ", "G", " ", "=", " ", "$", "q">>),
      Line(<<"S", "E", "T", " ", "H", " ", "=", " ", "$", "{", "q", "}">>),
      Line(<<"S", "E", "T", " ", "I", " ", "=", " ", "a", "b", "c">>),
      Line(<<"S", "E", "T", " ", "J", " ", "=", " ", "'", "x", "'">>),
      Line(<<"F", "O", "R", " ", "x", " ", "I", "N", " ", "\"", "5", "\"", ",", "$", "w", ",", "$", "{", "q", "}", ",", "7", ":">>),
      Line(<<" ", " ", " ", " ", "P", "R", "I", "N", "T", " ", "$", "{", "x", "}">>)>>
\* a variable whose value is a reference to a variable defined after it
ResubstScript ==
    <<Line(<<"S", "E", "T", " ", "a", " ", "=", " ", "$", "{", "b", "}">>),
      Line(<<"S", "E", "T", " ", "b", " ", "=", " ", "X">>),
      Line(<<"P", "R", "I", "N", "T", " ", "$", "{", "a", "}">>)>>
\* the same two bindings, defined in the other order
ResubstReversedScript ==
    <<Line(<<"S", "E", "T", " ", "b", " ", "=", " ", "X">>),
      Line(<<"S", "E", "T", " ", "a", " ", "=", " ", "'", "$", "{", "b", "}", "'">>),
      Line(<<"P", "R", "I", "N", "T", " ", "$", "{", "a", "}">>)>>
\* a FOR header followed by lines without indentation
UnindentedBodyScript ==
    <<Line(<<"F", "O", "R", " ", "i", " ", "I", "N", " ", "1", ".", ".", "2", ":">>),
      Line(<<"P", "R", "I", "N", "T", " ", "a", "$", "{", "i", "}">>),
      Line(<<"#", " ", "c">>),
      Line(<<>>),
      Line(<<"S", "E", "T", " ", "z", " ", "=", " ", "1">>),
      Line(<<"P", "R", "I", "N", "T", " ", "b", "$", "{", "i", "}">>)>>
\* a FOR header on the last line, which has no line end
HeaderLastScript ==
    <<Line(<<"P", "R", "I", "N", "T", " ", "x">>),
      <<"F", "O", "R", " ", "i", " ", "I", "N", " ", "1", ".", ".", "2", ":">>>>
ParseOnlyScripts ==
    {EmbeddedRefScript, BlankLineScript, ShadowScript, DashScript, NestedLoopScript,
     EmptyItemScript, MixedListScript, SingleItemScript, EvalScript, ResubstScript,
     ResubstReversedScript, UnindentedBodyScript, HeaderLastScript}

\* the scripts that are parsed and then executed: the loop-free scripts, the
\* fixed ones and one loop of each kind
Scripts ==
    FlatScripts \cup FixedScripts
        \cup {RangeScript(8, 10), ListScript(<<<<"a">>, <<"b">>, <<"c">>>>)}
\* the scripts that are parsed
ParseScripts == Scripts \cup RangeScripts \cup ListScripts \cup ParseOnlyScripts

\* what the environment does during a command that reaches a collaborator:
\* the call raises, or returns no row at once, or returns two rows after 3 ms
Answers ==
    {[raises |-> TRUE, count |-> 0, elapsed |-> 3],
     [raises |-> FALSE, count |-> 0, elapsed |-> 0],
     [raises |-> FALSE, count |-> 2, elapsed |-> 3]}
\* a command that reaches no collaborator takes less than a millisecond
LocalAnswer == [raises |-> FALSE, count |-> 0, elapsed |-> 0]
\* QUERY reaches the data engine once it has a table, EXPORT the exporter
\* once it has three arguments
ConsultedAnswers(command, context_items) ==
    LET expanded == expand_variables(command, context_items)
        handler == Route(expanded)
    IN  IF \/ handler = "QUERY" /\ expanded.args # <<>>
           \/ handler = "EXPORT" /\ Len(expanded.args) >= 3
        THEN Answers
        ELSE {LocalAnswer}

ReportPaths ==
    {<<"r", ".", "j", "s", "o", "n">>,
     <<"r", ".", "y", "a", "m", "l">>,
     <<"r", ".", "y", "m", "l">>,
     <<"r", ".", "t", "x", "t">>}

(***************************************************************************)
(* State.                                                                  *)
(***************************************************************************)
VARIABLES
    lines,          \* parse_file: the lines of the script file
    i,              \* parse_file: the index of the next line (1-based)
    parse_context,  \* parse_file: the local dict `context` (parse-time scope)
    commands,       \* parse_file: the list `commands`, then the batch executed
    pc,             \* "parse", "idle" (between calls) or "loop" (in execute_batch)
    context,        \* BatchExecutor.context (run-time context)
    results,        \* BatchExecutor.results
    dry_run,        \* execute_batch: its argument
    stop_on_error,  \* execute_batch: its argument
    cmd_index,      \* execute_batch: the position of the for loop (1-based)
    stopped,        \* execute_batch: the loop was left by `break`
    calls,          \* the collaborator calls of the current execute_batch call
    files,          \* the report files written, path -> [format, data]
    batch_count,    \* number of execute_batch calls made
    report_path     \* the path of the export_results call made, <<>> before it

vars == <<lines, i, parse_context, commands, pc, context, results, dry_run,
          stop_on_error, cmd_index, stopped, calls, files, batch_count, report_path>>
parser_vars == <<lines, i, parse_context, commands>>
executor_vars == <<context, results, dry_run, stop_on_error, cmd_index, stopped,
                   calls, files, batch_count, report_path>>

InitWith(scripts) ==
    /\ lines \in scripts
    /\ i = 1
    /\ parse_context = <<>>
    /\ commands = <<>>
    /\ pc = "parse"
    /\ context = <<>>
    /\ results = <<>>
    /\ dry_run = FALSE
    /\ stop_on_error = TRUE
    /\ cmd_index = 1
    /\ stopped = FALSE
    /\ calls = <<>>
    /\ files = <<>>
    /\ batch_count = 0
    /\ report_path = <<>>
Init == InitWith(Scripts)
InitParse == InitWith(ParseScripts)

(***************************************************************************)
(* BatchParser.parse_file: one action per kind of iteration of its loop.   *)
(***************************************************************************)
CurrentLine == strip(lines[i])
IsSkipped(line) == line = <<>> \/ match_comment(line)

\* an empty line or a comment
ParseSkip ==
    /\ pc = "parse" /\ i <= Len(lines)
    /\ IsSkipped(CurrentLine)
    /\ i' = i + 1
    /\ UNCHANGED <<lines, parse_context, commands, pc, executor_vars>>

\* (mutant) the assignment line is taken for a generic command line
ParseVariable_AsCommand ==
    /\ pc = "parse" /\ i <= Len(lines)
    /\ ~IsSkipped(CurrentLine)
    /\ match_variable(CurrentLine).ok
    /\ commands' = commands \o _parse_command_line(CurrentLine, i, parse_context)
    /\ i' = i + 1
    /\ UNCHANGED <<lines, parse_context, pc, executor_vars>>
\* SET name = value
ParseVariable ==
    /\ pc = "parse" /\ i <= Len(lines)
    /\ ~IsSkipped(CurrentLine)
    /\ match_variable(CurrentLine).ok
    /\ LET m == match_variable(CurrentLine) IN
       parse_context' = dict_set(parse_context, m.name,
                                 _evaluate_value(strip(m.value), parse_context))
    /\ i' = i + 1
    /\ UNCHANGED <<lines, commands, pc, executor_vars>>

\* (mutant) the scope of the last iteration is written back
ParseForLoop_WritesBack ==
    /\ pc = "parse" /\ i <= Len(lines)
    /\ ~IsSkipped(CurrentLine)
    /\ ~match_variable(CurrentLine).ok
    /\ match_for_loop(CurrentLine).ok
    /\ LET m == match_for_loop(CurrentLine)
           indent_level == IF i + 1 <= Len(lines) THEN _get_indent_level(lines[i + 1]) ELSE 0
           end == LoopBodyEnd(lines, i + 1, indent_level)
           loop_commands == SubSeq(lines, i + 1, end - 1)
           items == _parse_list(strip(m.value), parse_context)
       IN  /\ commands' = commands \o UnrollLoop(items, m.name, loop_commands, i, parse_context)
           /\ parse_context' = IF items = <<>> THEN parse_context
                               ELSE dict_set(parse_context, m.name, items[Len(items)])
           /\ i' = end
    /\ UNCHANGED <<lines, pc, executor_vars>>
\* FOR name IN items: with its body, captured and unrolled
ParseForLoop ==
    /\ pc = "parse" /\ i <= Len(lines)
    /\ ~IsSkipped(CurrentLine)
    /\ ~match_variable(CurrentLine).ok
    /\ match_for_loop(CurrentLine).ok
    /\ LET m == match_for_loop(CurrentLine)
           indent_level == IF i + 1 <= Len(lines) THEN _get_indent_level(lines[i + 1]) ELSE 0
           end == LoopBodyEnd(lines, i + 1, indent_level)
           loop_commands == SubSeq(lines, i + 1, end - 1)
           items == _parse_list(strip(m.value), parse_context)
       IN  /\ commands' = commands \o UnrollLoop(items, m.name, loop_commands, i, parse_context)
           /\ i' = end
    /\ UNCHANGED <<lines, parse_context, pc, executor_vars>>

\* any other line
ParseCommand ==
    /\ pc = "parse" /\ i <= Len(lines)
    /\ ~IsSkipped(CurrentLine)
    /\ ~match_variable(CurrentLine).ok
    /\ ~match_for_loop(CurrentLine).ok
    /\ commands' = commands \o _parse_command_line(CurrentLine, i, parse_context)
    /\ i' = i + 1
    /\ UNCHANGED <<lines, parse_context, pc, executor_vars>>

\* return commands
ParseReturn ==
    /\ pc = "parse" /\ i > Len(lines)
    /\ pc' = "idle"
    /\ UNCHANGED <<parser_vars, executor_vars>>

(***************************************************************************)
(* BatchExecutor.execute_batch.                                            *)
(***************************************************************************)
\* the call: self.results = [].  The runs explored make up to MaxBatches
\* calls and then write one report.
execute_batch(dry, stop) ==
    /\ pc = "idle" /\ batch_count < MaxBatches /\ report_path = <<>>
    /\ results' = <<>>
    /\ dry_run' = dry
    /\ stop_on_error' = stop
    /\ cmd_index' = 1
    /\ stopped' = FALSE
    /\ calls' = <<>>
    /\ batch_count' = batch_count + 1
    /\ pc' = "loop"
    /\ UNCHANGED <<parser_vars, context, files, report_path>>

InLoop == pc = "loop" /\ ~stopped /\ cmd_index <= Len(commands)

\* (mutant) the flag is read the wrong way round
BreakLoop_WithoutStop(result, stop) == ~result.success /\ ~stop
\* (mutant) the loop is never left early
BreakLoop_Never(result, stop) == FALSE
\* if not result.success and stop_on_error: break
BreakLoop(result, stop) == ~result.success /\ stop

\* _execute_command on the current command, the append, the indicator line
\* and the break or the step to the next command
RunCommand(handler) ==
    /\ Route(expand_variables(commands[cmd_index], context)) = handler
    /\ \E env \in ConsultedAnswers(commands[cmd_index], context) :
         LET command == commands[cmd_index]
             e == _execute_command(command, context, env)
         IN  /\ results' = Append(results, e.result)
             /\ context' = e.context
             /\ calls' = calls \o e.calls \o
                   <<IF e.result.success
                     THEN Call("console", "ok", command.command, <<>>)
                     ELSE Call("console", "fail", e.result.error.s, <<>>)>>
             /\ IF BreakLoop(e.result, stop_on_error)
                THEN stopped' = TRUE /\ cmd_index' = cmd_index
                ELSE stopped' = FALSE /\ cmd_index' = cmd_index + 1
    /\ UNCHANGED <<parser_vars, pc, dry_run, stop_on_error, files, batch_count, report_path>>

\* (mutant) the dry_run branch is missing: the command is executed
DryRunCommand_Executes == InLoop /\ dry_run /\ \E handler \in Handlers : RunCommand(handler)
\* one iteration with dry_run: the notice, then continue
DryRunCommand ==
    /\ InLoop /\ dry_run
    /\ LET command == commands[cmd_index] IN
       calls' = Append(calls, Call("console", "would",
                                   command.command \o <<" ">> \o join(<<" ">>, command.args),
                                   <<>>))
    /\ cmd_index' = cmd_index + 1
    /\ UNCHANGED <<parser_vars, pc, context, results, dry_run, stop_on_error, stopped,
                   files, batch_count, report_path>>

\* one iteration without dry_run whose command is routed to `handler`
ExecuteCommand(handler) == InLoop /\ ~dry_run /\ RunCommand(handler)

ExecuteQuery == ExecuteCommand("QUERY")
ExecuteExport == ExecuteCommand("EXPORT")
ExecuteSet == ExecuteCommand("SET")
ExecutePrint == ExecuteCommand("PRINT")
ExecuteUnknown == ExecuteCommand("UNKNOWN")

\* return self.results
ReturnResults ==
    /\ pc = "loop" /\ (stopped \/ cmd_index > Len(commands))
    /\ pc' = "idle"
    /\ UNCHANGED <<parser_vars, context, results, dry_run, stop_on_error, cmd_index,
                   stopped, calls, files, batch_count, report_path>>

\* BatchExecutor.export_results
export_results(filepath) ==
    /\ pc = "idle" /\ report_path = <<>>
    /\ report_path' = filepath
    /\ files' = IF ReportFormat(filepath) # ""
                THEN dict_set(files, filepath,
                              [format |-> ReportFormat(filepath),
                               data |-> ReportData(results, context)])
                ELSE files
    /\ UNCHANGED <<parser_vars, pc, context, results, dry_run, stop_on_error, cmd_index,
                   stopped, calls, batch_count>>

ParseNext ==
    \/ ParseSkip
    \/ ParseVariable
    \/ ParseForLoop
    \/ ParseCommand
    \/ ParseReturn

Next ==
    \/ ParseNext
    \/ \E dry \in BOOLEAN, stop \in BOOLEAN : execute_batch(dry, stop)
    \/ DryRunCommand
    \/ ExecuteQuery
    \/ ExecuteExport
    \/ ExecuteSet
    \/ ExecutePrint
    \/ ExecuteUnknown
    \/ ReturnResults
    \/ \E filepath \in ReportPaths : export_results(filepath)

\* a script is parsed, executed up to MaxBatches times and reported on
Spec == Init /\ [][Next]_vars
\* a script is parsed
SpecParse == InitParse /\ [][ParseNext]_vars

\* a script is parsed by a parser that keeps running: parse_file is a
\* sequential loop that takes its next step as long as it has one
\* The while loop of parse_file keeps running until its condition fails: weak
\* fairness of the parser's step.  A step of ParseNext is possible exactly
\* while pc = "parse" (one of the four line cases applies to every line, and
\* the return applies past the last line), so WF_vars(ParseNext) is written
\* out with that state predicate in the place of ENABLED <<ParseNext>>_vars.
ParseFairness ==
    /\ WF_vars(ParseReturn)
    /\ ([]<>(pc # "parse") \/ []<><<ParseNext>>_vars)
SpecParseFair == InitParse /\ [][ParseNext]_vars /\ ParseFairness

(***************************************************************************)
(* Properties.                                                             *)
(***************************************************************************)
Failed == {j \in DOMAIN results : ~results[j].success}
\* an execute_batch call with dry_run = False is running or has returned
Executed == batch_count > 0 /\ pc \in {"loop", "idle"} /\ ~dry_run

\* C1: with dry_run = False and stop_on_error = True the first failed result
\* is the last one: the results are commands 1..k in order, all before the
\* last successful, and once a result has failed the call appends no result,
\* makes no collaborator call and leaves the run-time context alone.
C1_FirstFailureIsLast ==
    (Executed /\ stop_on_error) =>
        /\ Len(results) <= Len(commands)
        /\ \A j \in DOMAIN results : results[j].command = commands[j]
        /\ \A j \in Failed : j = Len(results)
        /\ Failed # {} => stopped /\ cmd_index = Len(results)
C1_StopOnFirstFailure ==
    [][/\ C1_FirstFailureIsLast'
       /\ (Executed /\ stop_on_error /\ pc = "loop" /\ Failed # {})
            => /\ results' = results
               /\ context' = context
               /\ calls' = calls]_vars
\* a batch stopped at its second command, with a command left unattempted
C1_Witness ==
    /\ Executed /\ stop_on_error /\ pc = "idle"
    /\ Failed = {2}
    /\ Len(results) = 2
    /\ Len(commands) > 2

\* C2: every execute_batch call starts with an empty run-time context: when
\* a call has been entered and has not yet passed a command, no variable of
\* an earlier call is in the context.
C2_ContextStartsEmpty ==
    (pc = "loop" /\ cmd_index = 1 /\ results = <<>> /\ ~stopped) => context = <<>>

\* the items of the loop header on the first line of the script
HeaderItems ==
    _parse_list(strip(match_for_loop(strip(lines[1])).value), <<>>)
IsListScript == \E items \in ItemLists : lines = ListScript(items)
\* C3: FOR x IN <items>: with the body SET y = ${x} parses into one SET
\* command per item, and when they have run the run-time context binds y to
\* the last item and holds nothing else.
C3_LoopSetBindsLastItem ==
    (IsListScript /\ pc = "idle" /\ batch_count = 1 /\ ~dry_run
        /\ Len(results) = Len(commands)) =>
        /\ Len(commands) = Len(HeaderItems)
        /\ \A j \in DOMAIN commands : upper(commands[j].command) = <<"S", "E", "T">>
        /\ context = <<[k |-> <<"y">>, v |-> HeaderItems[Len(HeaderItems)]]>>

\* C4: a step of an execute_batch call with dry_run = True (entering it,
\* passing a command, returning) leaves the results empty and the run-time
\* context as it was, and the only calls made are the console's notices.
C4_DryRunChangesNothing ==
    [][(dry_run' /\ (pc = "loop" \/ pc' = "loop")) =>
          /\ results' = <<>>
          /\ context' = context
          /\ \A j \in DOMAIN calls' : calls'[j].kind = "would"]_vars
\* a dry run over two commands or more has returned, with both values of
\* stop_on_error, after an earlier call filled the context
C4_Witness ==
    /\ pc = "idle" /\ dry_run /\ batch_count = 2
    /\ context # <<>>
    /\ Len(calls) = Len(commands) /\ Len(commands) >= 2

\* C5: a command that cannot be dispatched or whose handler raises becomes a
\* failed result carrying the message and no output: an unknown command
\* name is reported in its original case, a missing argument by its message;
\* a successful result carries no error; and with stop_on_error = False the
\* call returns one result per command.
HasNoReference(command) == ~contains(command.command, <<"$">>)
C5_ErrorsBecomeResults ==
    Executed =>
        /\ \A j \in DOMAIN results :
             LET r == results[j] IN
             /\ r.success => r.error = NoneValue
             /\ ~r.success => r.error.t = "str" /\ r.output = NoneValue
             /\ (HasNoReference(r.command) /\ Route(r.command) = "UNKNOWN") =>
                   /\ ~r.success
                   /\ r.error.s = MsgUnknownCommand \o r.command.command
             /\ (HasNoReference(r.command) /\ Route(r.command) = "QUERY"
                   /\ r.command.args = <<>>) =>
                   ~r.success /\ r.error.s = MsgQueryRequires
             /\ (HasNoReference(r.command) /\ Route(r.command) = "EXPORT"
                   /\ Len(r.command.args) < 3) =>
                   ~r.success /\ r.error.s = MsgExportRequires
             /\ (HasNoReference(r.command) /\ Route(r.command) = "SET"
                   /\ Len(r.command.args) < 2) =>
                   ~r.success /\ r.error.s = MsgSetRequires
        /\ (pc = "idle" /\ ~stop_on_error) => Len(results) = Len(commands)
\* a batch run to its end with an unknown command in mixed case, a missing
\* argument and a collaborator that raised
C5_Witness ==
    /\ Executed /\ pc = "idle" /\ ~stop_on_error
    /\ Len(results) = Len(commands)
    /\ \E j \in Failed : results[j].error.s = MsgCollaborator
    /\ \E j \in Failed : results[j].error.s = MsgQueryRequires
    /\ \E j \in Failed :
         /\ Route(results[j].command) = "UNKNOWN"
         /\ upper(results[j].command.command) # results[j].command.command

\* C6: a call with dry_run = True does not change what get_summary returns.
C6_DryRunKeepsSummary ==
    [][(dry_run' /\ (pc = "loop" \/ pc' = "loop")) =>
          get_summary(results') = get_summary(results)]_vars

\* C7: get_summary counts the results, the failed ones among them and the
\* rest as successful, and its average is 0 when there is no result.
C7_SummaryCounts ==
    LET summary == get_summary(results) IN
    /\ summary.total_commands = Len(results)
    /\ summary.failed = Cardinality(Failed)
    /\ summary.successful = summary.total_commands - summary.failed
    /\ summary.successful + summary.failed = summary.total_commands
    /\ results = <<>> => summary.avg_duration = 0
\* results of both kinds, with time spent
C7_Witness ==
    /\ pc = "idle" /\ Len(results) >= 2
    /\ Failed # {} /\ Failed # DOMAIN results
    /\ get_summary(results).avg_duration > 0

SupportedSuffixes ==
    {<<".", "j", "s", "o", "n">>, <<".", "y", "a", "m", "l">>, <<".", "y", "m", "l">>}
\* C8: export_results to a path ending in .json, .yaml or .yml writes the
\* report there: JSON for .json, YAML for the other two, holding the summary,
\* one entry per result in order and the run-time context.
C8_ReportWritten ==
    (report_path # <<>> /\ suffix(report_path) \in SupportedSuffixes) =>
        /\ has_key(files, report_path)
        /\ dict_get(files, report_path, NoneValue) =
             [format |-> IF suffix(report_path) = <<".", "j", "s", "o", "n">>
                         THEN "json" ELSE "yaml",
              data |-> ReportData(results, context)]

\* C9: export_results to a path with any other suffix writes no file, raises
\* nothing and leaves the results and the run-time context as they were.
C9_OtherSuffixWritesNothing ==
    [][(report_path' # report_path /\ suffix(report_path') \notin SupportedSuffixes) =>
          /\ files' = files
          /\ results' = results
          /\ context' = context
          /\ pc' = "idle"]_vars
\* export_results("r.txt") was called on an executor that holds results
C9_Witness ==
    /\ report_path # <<>> /\ suffix(report_path) = <<".", "t", "x", "t">>
    /\ results # <<>> /\ context # <<>>

\* C10: FOR i IN a..b: (a <= b) with the one-line body PRINT ${i} parses into
\* b - a + 1 commands, the n-th being PRINT with the text of a + n - 1 as its
\* only argument, each carrying the line number of the FOR header.
C10_RangeLoopUnrolled ==
    \A a \in RangeEndpoints, b \in RangeEndpoints :
        (pc # "parse" /\ a <= b /\ lines = RangeScript(a, b)) =>
            /\ Len(commands) = b - a + 1
            /\ \A n \in DOMAIN commands :
                 /\ commands[n].command = <<"P", "R", "I", "N", "T">>
                 /\ commands[n].args = <<str_int(a + n - 1)>>
                 /\ commands[n].options = <<>>
                 /\ commands[n].line_number = 2
\* the range 8..10 has been unrolled
C10_Witness ==
    /\ lines = RangeScript(8, 10) /\ pc = "idle"
    /\ Len(commands) = 3
    /\ commands[3].line_number = 2
    /\ commands[3].args = <<<<"1", "0">>>>

\* a step of execute_batch that dispatches the current command to a handler
Dispatching == pc = "loop" /\ ~dry_run /\ Len(results') = Len(results) + 1
\* the command the handler receives, the result appended and the calls made
Dispatched == expand_variables(commands[cmd_index], context)
NewResult == results'[Len(results')]
NewCalls == SubSeq(calls', Len(calls) + 1, Len(calls'))

\* C11: a top-level line SET X = v emits no command and binds X in the
\* parse-time scope, never in the run-time context; SET X = 5 followed by
\* PRINT ${X} parses into the single command PRINT 5 on line 4, and its
\* execution prints exactly 5.
C11_AssignScriptPrintsValue ==
    (lines = AssignScript /\ pc # "parse") =>
        /\ Len(commands) = 1
        /\ commands[1].line_number = 4
        /\ commands[1].command = <<"P", "R", "I", "N", "T">>
        /\ commands[1].args = <<<<"5">>>>
        /\ ~has_key(context, <<"X">>)
        /\ (Executed /\ results # <<>>) =>
              /\ results[1].success
              /\ results[1].output = StrValue(<<"5">>)
              /\ \E j \in DOMAIN calls :
                    calls[j].kind = "print" /\ calls[j].what = <<"5">>
C11_AssignmentBindsAtParseTime ==
    [][/\ C11_AssignScriptPrintsValue'
       /\ (pc = "parse" /\ i <= Len(lines) /\ ~IsSkipped(CurrentLine)
              /\ match_variable(CurrentLine).ok)
            => /\ commands' = commands
               /\ has_key(parse_context', match_variable(CurrentLine).name)
               /\ context' = context]_vars
\* the PRINT of the assignment script has run and printed 5
C11_Witness ==
    /\ lines = AssignScript /\ Executed /\ pc = "idle"
    /\ parse_context = <<[k |-> <<"X">>, v |-> IntValue(5)]>>
    /\ Len(results) = 1
    /\ results[1].output = StrValue(<<"5">>)

\* C12: QUERY without a positional arg, EXPORT with fewer than three and SET
\* with fewer than two fail with their message, and such a step calls
\* neither the data engine nor the exporter and leaves the run-time context
\* as it was.
C12_ArgumentChecksFirst ==
    [][Dispatching =>
         LET x == Dispatched
             short == \/ Route(x) = "QUERY" /\ Len(x.args) = 0
                      \/ Route(x) = "EXPORT" /\ Len(x.args) < 3
                      \/ Route(x) = "SET" /\ Len(x.args) < 2
         IN  short =>
               /\ ~NewResult.success
               /\ NewResult.error.s =
                     (IF Route(x) = "QUERY" THEN <<"Q", "u", "e", "r", "y", " ", "r", "e", "q", "u", "i", "r", "e", "s", " ", "t", "a", "b", "l", "e", " ", "n", "a", "m", "e">>
                      ELSE IF Route(x) = "EXPORT"
                      THEN <<"E", "x", "p", "o", "r", "t", " ", "r", "e", "q", "u", "i", "r", "e", "s", ":", " ", "t", "a", "b", "l", "e", " ", "f", "o", "r", "m", "a", "t", " ", "f", "i", "l", "e", "n", "a", "m", "e">>
                      ELSE <<"S", "E", "T", " ", "r", "e", "q", "u", "i", "r", "e", "s", ":", " ", "v", "a", "r", "i", "a", "b", "l", "e", " ", "v", "a", "l", "u", "e">>)
               /\ \A j \in DOMAIN NewCalls : NewCalls[j].target = "console"
               /\ context' = context]_vars
\* the three checks have failed in one batch, after a SET filled the context
C12_Witness ==
    /\ lines = ShortArgsScript /\ Executed /\ pc = "idle" /\ ~stop_on_error
    /\ Len(results) = 6
    /\ {2, 3, 4} \subseteq Failed
    /\ results[3].error.s = MsgExportRequires
    /\ context # <<>>

\* C13: a run-time SET name v1 ... vn with n >= 1 succeeds and stores under
\* name the args after the first joined by single spaces: as an integer when
\* the text is all digits, as a boolean when it is true or false in any
\* case, as the text itself otherwise.
C13_SetStoresTypedValue ==
    [][(Dispatching /\ Route(Dispatched) = "SET" /\ Len(Dispatched.args) >= 2) =>
         LET x == Dispatched
             text == join(<<" ">>, Tail(x.args))
             stored == dict_get(context', x.args[1], NoneValue)
         IN  /\ NewResult.success
             /\ stored.t = (IF isdigit(text) THEN "int"
                            ELSE IF lower(text) \in {<<"t", "r", "u", "e">>, <<"f", "a", "l", "s", "e">>}
                            THEN "bool" ELSE "str")
             /\ stored.s = (IF isdigit(text) THEN str_int(int(text))
                            ELSE IF lower(text) = <<"t", "r", "u", "e">> THEN <<"T", "r", "u", "e">>
                            ELSE IF lower(text) = <<"f", "a", "l", "s", "e">> THEN <<"F", "a", "l", "s", "e">>
                            ELSE text)]_vars
\* SET n 42, SET b True and SET s a  b have stored 42, True and "a b"
C13_Witness ==
    /\ lines = TypedSetScript /\ Executed /\ pc = "idle"
    /\ context = <<[k |-> <<"n">>, v |-> [t |-> "int", s |-> <<"4", "2">>]],
                   [k |-> <<"b">>, v |-> [t |-> "bool", s |-> <<"T", "r", "u", "e">>]],
                   [k |-> <<"s">>, v |-> [t |-> "str", s |-> <<"a", " ", "b">>]]>>

\* C14: a top-level SET name = value substitutes ${var} in the value before
\* it is evaluated: after SET A = 5, the line SET B = x${A} binds B to x5.
C14_AssignmentSubstitutesFirst ==
    (lines = EmbeddedRefScript /\ has_key(parse_context, <<"B">>)) =>
        dict_get(parse_context, <<"B">>, NoneValue).s = <<"x", "5">>

\* C15: an empty line between two indented body lines does not end the loop:
\* FOR i IN 1..2: with the body PRINT a${i}, an empty line, PRINT b${i}
\* parses into PRINT a1, PRINT b1, PRINT a2, PRINT b2, all carrying the line
\* number of the header.
C15_BlankLineKeepsLoopBody ==
    (lines = BlankLineScript /\ pc # "parse") =>
        /\ [j \in DOMAIN commands |-> commands[j].args] =
              <<<<<<"a", "1">>>>, <<<<"b", "1">>>>, <<<<"a", "2">>>>, <<<<"b", "2">>>>>>
        /\ \A j \in DOMAIN commands : commands[j].line_number = 1

\* the parse of the script with a shadowing loop variable: 1 and 2 inside the
\* loop, the outer 9 after it
C16_ShadowScriptParsed ==
    (lines = ShadowScript /\ pc # "parse") =>
        /\ [j \in DOMAIN commands |-> commands[j].args] =
              <<<<<<"1", "3">>>>, <<<<"2", "3">>>>, <<<<"9", "3">>>>>>
        /\ parse_context = <<[k |-> <<"i">>, v |-> IntValue(9)],
                             [k |-> <<"k">>, v |-> IntValue(3)]>>
        /\ commands[3].variables = parse_context
\* C16: parsing a loop leaves the parse-time scope as it was before the FOR
\* header, and the scope of every command of the loop is that outer scope
\* with only the loop variable bound anew.
C16_LoopLeavesOuterScope ==
    [][/\ C16_ShadowScriptParsed'
       /\ (pc = "parse" /\ i <= Len(lines) /\ ~IsSkipped(CurrentLine)
              /\ ~match_variable(CurrentLine).ok /\ match_for_loop(CurrentLine).ok)
            => LET name == match_for_loop(CurrentLine).name IN
               /\ parse_context' = parse_context
               /\ \A j \in (Len(commands) + 1)..Len(commands') :
                    LET scope == commands'[j].variables IN
                    /\ has_key(scope, name)
                    /\ \A h \in DOMAIN scope :
                         scope[h].k # name => scope[h] \in Range(parse_context)
                    /\ \A h \in DOMAIN parse_context :
                         parse_context[h].k # name => parse_context[h] \in Range(scope)]_vars
\* the script with the shadowing loop variable has been parsed
C16_Witness ==
    /\ lines = ShadowScript /\ pc = "idle"
    /\ Len(commands) = 3
    /\ commands[2].variables = <<[k |-> <<"i">>, v |-> IntValue(2)],
                                 [k |-> <<"k">>, v |-> IntValue(3)]>>
    /\ commands[3].args = <<<<"9", "3">>>>

\* C17: every command parse produces has line_number >= 1, a sequence of
\* args, and options whose keys are not empty and do not begin with a dash.
C17_CommandRecordWellFormed ==
    \A j \in DOMAIN commands :
        /\ commands[j].line_number >= 1
        /\ DOMAIN commands[j].args = 1..Len(commands[j].args)
        /\ \A h \in DOMAIN commands[j].options :
             LET key == commands[j].options[h].k IN
             key # <<>> /\ key[1] # "-"

\* snapshots a record could carry instead of its own: none, and one that
\* binds every name the executed scripts refer to at run time
OtherSnapshots ==
    {<<>>,
     <<[k |-> <<"n">>, v |-> StrValue(<<"z">>)], [k |-> <<"a">>, v |-> StrValue(<<"z">>)],
       [k |-> <<"u">>, v |-> StrValue(<<"z">>)], [k |-> <<"r">>, v |-> IntValue(7)]>>}
\* C18: the `variables` snapshot of a record has no influence on execution:
\* whenever a command is about to be dispatched, the same command carrying
\* another snapshot gives, from the same run-time context and the same
\* collaborator behaviour, the same success, output, error, collaborator
\* calls and run-time context.  As the context after each command is the
\* same, so is that of the next: two lists that differ only in their
\* snapshots give the same results and the same final context.
C18_SnapshotNotConsulted ==
    (InLoop /\ ~dry_run) =>
        \A env \in Answers \cup {LocalAnswer}, snapshot \in OtherSnapshots :
            LET command == commands[cmd_index]
                e1 == _execute_command(command, context, env)
                e2 == _execute_command([command EXCEPT !.variables = snapshot], context, env)
            IN  /\ e1.result.success = e2.result.success
                /\ e1.result.output = e2.result.output
                /\ e1.result.error = e2.result.error
                /\ e1.context = e2.context
                /\ e1.calls = e2.calls
\* a command with a reference left for run time is about to be dispatched
\* while the run-time context binds one of the names it refers to
C18_Witness ==
    /\ InLoop /\ ~dry_run /\ lines = LateBindScript /\ cmd_index = 4
    /\ has_key(context, <<"a">>)
    /\ \E j \in DOMAIN commands[4].args : contains(commands[4].args[j], <<"$", "{">>)
    /\ \A snapshot \in OtherSnapshots : snapshot # context

\* C19: in the first batch run of PRINT ${a}-${u}, SET a 1, QUERY t${a} --var r,
\* PRINT ${a}-${u}-${r}, QUERY, SET c print, ${c} ${a}: the first PRINT
\* succeeds with its references left verbatim (a is stored later, u never),
\* the QUERY selects table t1, the second PRINT has a replaced by 1, u left
\* verbatim and r replaced by the stored query result, or left verbatim when
\* the QUERY failed, and the last command is dispatched as PRINT and prints 1.
C19_ExpandedBeforeDispatch ==
    (lines = LateBindScript /\ Executed /\ batch_count = 1) =>
        /\ Len(results) >= 1 =>
              /\ results[1].success
              /\ results[1].output.s = <<"$", "{", "a", "}", "-", "$", "{", "u", "}">>
        /\ Len(results) >= 3 =>
              /\ \E j \in DOMAIN calls : calls[j].kind = "select" /\ calls[j].what = <<"t", "1">>
              /\ \A j \in DOMAIN calls : calls[j].kind = "select" => calls[j].what = <<"t", "1">>
        /\ Len(results) >= 4 =>
              /\ results[4].success
              /\ results[4].output.s =
                    <<"1", "-", "$", "{", "u", "}", "-">> \o
                    (IF results[3].success
                     THEN QueryResultValue(int(results[3].output.s)).s
                     ELSE <<"$", "{", "r", "}">>)
        /\ Len(results) >= 7 =>
              /\ results[7].success
              /\ results[7].output = StrValue(<<"1">>)
\* the script has run to its end, with the QUERY answered and with it failed
C19_Witness ==
    /\ lines = LateBindScript /\ Executed /\ batch_count = 1 /\ pc = "idle"
    /\ Len(results) = 7
    /\ results[3].success
    /\ results[4].output.s = <<"1", "-", "$", "{", "u", "}", "-", "{", "c", "o", "u", "n", "t", ":", "2", "}">>

\* the entries of two dicts under every key but `name` are the same, at the
\* same positions
SameExcept(d1, d2, name) ==
    /\ \A h \in DOMAIN d1 : d1[h].k # name => h \in DOMAIN d2 /\ d2[h] = d1[h]
    /\ \A h \in DOMAIN d2 : d2[h].k # name => h \in DOMAIN d1 /\ d1[h] = d2[h]
\* C20: the run-time context changes only in a step that dispatches a
\* command; a SET that succeeds and a QUERY with a var option that succeeds
\* bind the one name they are given and leave every other binding alone;
\* every other dispatch (PRINT, EXPORT, unknown command, QUERY without var,
\* any command that fails) leaves the context exactly as it was.
C20_ContextWrittenBySetAndQueryVar ==
    [][/\ context' # context => Dispatching
       /\ Dispatching =>
            LET x == Dispatched IN
            IF NewResult.success /\ Route(x) = "SET"
            THEN has_key(context', x.args[1]) /\ SameExcept(context, context', x.args[1])
            ELSE IF NewResult.success /\ Route(x) = "QUERY" /\ has_key(x.options, <<"v", "a", "r">>)
            THEN LET name == dict_get(x.options, <<"v", "a", "r">>, NoneValue).s IN
                 has_key(context', name) /\ SameExcept(context, context', name)
            ELSE context' = context]_vars
\* a SET and a QUERY --var have each added a binding, and a command failed
C20_Witness ==
    /\ lines = LateBindScript /\ Executed /\ batch_count = 1 /\ pc = "idle"
    /\ Failed = {5}
    /\ Len(context) = 3
    /\ has_key(context, <<"a">>) /\ has_key(context, <<"r">>)

\* C21: commands run one at a time in document order: a step of a call
\* without dry_run appends at most one result and moves on by at most one
\* command; the j-th result belongs to the j-th command and carries the
\* record as parse produced it, whatever the re-expansion substituted; and
\* the command list is never changed once parsed.
C21_ResultsMirrorCommands ==
    Executed =>
        /\ Len(results) <= Len(commands)
        /\ \A j \in DOMAIN results :
             /\ results[j].command.line_number = commands[j].line_number
             /\ results[j].command.command = commands[j].command
             /\ results[j].command.args = commands[j].args
             /\ results[j].command.options = commands[j].options
             /\ results[j].command.variables = commands[j].variables
        /\ pc = "loop" => Len(results) \in {cmd_index - 1, cmd_index}
C21_OneCommandAtATime ==
    [][/\ C21_ResultsMirrorCommands'
       /\ pc # "parse" => commands' = commands
       /\ (pc = "loop" /\ ~dry_run) =>
            /\ Len(results') \in {Len(results), Len(results) + 1}
            /\ cmd_index' \in {cmd_index, cmd_index + 1}
            /\ Len(results') = Len(results) + 1 =>
                  SubSeq(results', 1, Len(results)) = results]_vars
\* a command whose arg was changed by the re-expansion has run and its
\* result carries the arg as parsed
C21_Witness ==
    /\ lines = LateBindScript /\ Executed /\ pc = "idle" /\ Len(results) = 7
    /\ results[3].success
    /\ results[3].command.args = <<<<"t", "$", "{", "a", "}">>>>
    /\ \E j \in DOMAIN calls : calls[j].kind = "select" /\ calls[j].what = <<"t", "1">>

\* the indicator lines (one per command executed) of the current call
IndicatorLines == {j \in DOMAIN calls : calls[j].kind \in {"ok", "fail"}}
\* C22 as stated: a call with stop_on_error = True in which a command failed
\* returns fewer results, and shows fewer indicator lines, than there are
\* commands.
C22_FailureGivesFewerResults ==
    (Executed /\ stop_on_error /\ pc = "idle" /\ Failed # {}) =>
        /\ Len(results) < Len(commands)
        /\ Cardinality(IndicatorLines) < Len(commands)
\* C22 amended: a call with stop_on_error = True in which the k-th command
\* failed returns k results and shows k indicator lines: fewer than there
\* are commands exactly when the failed command is not the last one.
C22_FailureEndsTheRun ==
    (Executed /\ stop_on_error /\ pc = "idle" /\ Failed # {}) =>
        /\ Failed = {Len(results)}
        /\ Cardinality(IndicatorLines) = Len(results)
        /\ Len(results) <= Len(commands)
        /\ Len(results) < Len(commands) <=>
              \E j \in DOMAIN commands : j > Len(results)
\* a failure at the last command: as many results as commands
C22_Witness ==
    /\ Executed /\ stop_on_error /\ pc = "idle"
    /\ Len(commands) >= 2
    /\ Failed = {Len(commands)}
    /\ Len(results) = Len(commands)

\* C23: no command produced from a loop body is a FOR header: the loop whose
\* body is FOR j IN 3..4: and PRINT ${i}${j} gives no command named FOR.
C23_NoNestedLoopHeader ==
    (lines = NestedLoopScript /\ pc # "parse") =>
        \A j \in DOMAIN commands : upper(commands[j].command) # <<"F", "O", "R">>

\* a step of parse_file that handles a FOR header and its body
ForLoopStep ==
    /\ pc = "parse" /\ i <= Len(lines) /\ ~IsSkipped(CurrentLine)
    /\ ~match_variable(CurrentLine).ok /\ match_for_loop(CurrentLine).ok
\* the body lines the step captured and the commands it appended
CapturedBody == SubSeq(lines, i + 1, i' - 1)
LoopCommands == SubSeq(commands', Len(commands) + 1, Len(commands'))
\* the items of a list expression: A..B with A and B all digits gives the
\* integers from A to B, none when A > B; otherwise a comma separates the
\* tokens, each evaluated; otherwise the expression is the only token
ListItems(expr, scope) ==
    LET ends == split_on(expr, <<".", ".">>)
        tokens == split_on(expr, <<",">>)
    IN  IF Len(ends) = 2 /\ isdigit(ends[1]) /\ isdigit(ends[2])
        THEN [n \in 1..(IF int(ends[1]) > int(ends[2]) THEN 0
                        ELSE int(ends[2]) - int(ends[1]) + 1)
                 |-> IntValue(int(ends[1]) + n - 1)]
        ELSE IF Len(tokens) > 1
        THEN [n \in DOMAIN tokens |-> _evaluate_value(strip(tokens[n]), scope)]
        ELSE <<_evaluate_value(expr, scope)>>
\* the body lines that are neither blank nor comments
CountedLines(body) ==
    {h \in DOMAIN body : strip(body[h]) # <<>> /\ ~startswith(strip(body[h]), <<"#">>)}
\* those of them that still hold a token once the scope is substituted
YieldingLines(body, scope) ==
    {h \in CountedLines(body) : split(ExpandText(strip(body[h]), scope)) # <<>>}
\* the value of the loop variable, once per command of each iteration
RECURSIVE ExpectedLoopValues(_, _, _, _)
ExpectedLoopValues(items, name, body, scope) ==
    IF items = <<>> THEN <<>>
    ELSE [h \in 1..Cardinality(YieldingLines(body, dict_set(scope, name, items[1])))
             |-> items[1]]
         \o ExpectedLoopValues(Tail(items), name, body, scope)

\* C24 as stated: a loop contributes (number of items) x (number of
\* non-blank, non-comment body lines) commands, the items being those of
\* the list expression.
C24_LoopContributesItemsTimesLines ==
    [][ForLoopStep =>
         LET m == match_for_loop(CurrentLine)
             items == ListItems(strip(m.value), parse_context)
         IN  /\ Len(LoopCommands) = Len(items) * Cardinality(CountedLines(CapturedBody))
             /\ \A j \in DOMAIN LoopCommands :
                  dict_get(LoopCommands[j].variables, m.name, NoneValue) \in Range(items)]_vars
\* C24 amended: the items are those of the list expression, in order, and
\* each iteration contributes one command per non-blank, non-comment body
\* line that still holds a token after the substitution of its scope.
C24_LoopContributesPerYieldingLine ==
    [][ForLoopStep =>
         LET m == match_for_loop(CurrentLine)
             items == ListItems(strip(m.value), parse_context)
         IN  [j \in DOMAIN LoopCommands |->
                 dict_get(LoopCommands[j].variables, m.name, NoneValue)]
               = ExpectedLoopValues(items, m.name, CapturedBody, parse_context)]_vars
\* the list a,,b with the body ${x}, a comment, PRINT ${x} has been
\* unrolled: the empty item contributes one command, the others two
C24_Witness ==
    /\ lines = EmptyItemScript /\ pc = "idle"
    /\ Len(commands) = 5
    /\ [j \in DOMAIN commands |-> commands[j].variables[1].v.s] =
          <<<<"a">>, <<"a">>, <<>>, <<"b">>, <<"b">>>>

\* C25: the Literal Evaluator takes the first match of quoted string,
\* all-digit integer, float, true/false in any case, variable reference, raw
\* string.  After SET w = 7: "5" and 'x' are the strings 5 and x, 007 the
\* integer 7, 2.50 the float 2.5, TRUE the boolean True, $w and ${w} the
\* integer 7, $q and ${q} (unbound) themselves, abc itself; the list
\* "5",$w,${q},7 gives the same values item by item; the endpoints of a
\* range are integers.
C25_LiteralEvaluatorOrder ==
    /\ (lines = EvalScript /\ pc # "parse") =>
          /\ parse_context =
                <<[k |-> <<"w">>, v |-> [t |-> "int", s |-> <<"7">>]],
                  [k |-> <<"A">>, v |-> [t |-> "str", s |-> <<"5">>]],
                  [k |-> <<"B">>, v |-> [t |-> "int", s |-> <<"7">>]],
                  [k |-> <<"C">>, v |-> [t |-> "float", s |-> <<"2", ".", "5">>]],
                  [k |-> <<"D">>, v |-> [t |-> "bool", s |-> <<"T", "r", "u", "e">>]],
                  [k |-> <<"E">>, v |-> [t |-> "int", s |-> <<"7">>]],
                  [k |-> <<"F">>, v |-> [t |-> "int", s |-> <<"7">>]],
                  [k |-> <<"G">>, v |-> [t |-> "str", s |-> <<"$", "q">>]],
                  [k |-> <<"H">>, v |-> [t |-> "str", s |-> <<"$", "{", "q", "}">>]],
                  [k |-> <<"I">>, v |-> [t |-> "str", s |-> <<"a", "b", "c">>]],
                  [k |-> <<"J">>, v |-> [t |-> "str", s |-> <<"x">>]]>>
          /\ [j \in DOMAIN commands |-> dict_get(commands[j].variables, <<"x">>, NoneValue)] =
                <<[t |-> "str", s |-> <<"5">>], [t |-> "int", s |-> <<"7">>],
                  [t |-> "str", s |-> <<"$", "{", "q", "}">>], [t |-> "int", s |-> <<"7">>]>>
    /\ (lines = RangeScript(8, 10) /\ pc # "parse") =>
          [j \in DOMAIN commands |-> dict_get(commands[j].variables, <<"i">>, NoneValue)] =
            <<[t |-> "int", s |-> <<"8">>], [t |-> "int", s |-> <<"9">>],
              [t |-> "int", s |-> <<"1", "0">>]>>
\* the script with one assignment per kind of literal has been parsed
C25_Witness ==
    /\ lines = EvalScript /\ pc = "idle"
    /\ Len(parse_context) = 11
    /\ Len(commands) = 4
    /\ dict_get(parse_context, <<"A">>, NoneValue).t = "str"

\* what one iteration of the loop of parse_file does with the lines from i:
\* it handles line i and moves to the next line, or, for a FOR header, it
\* takes the lines that follow up to the first one indented less than the
\* line right after the header and moves to that one, with the scope as it
\* was; a top-level command carries the outer scope
LineHandledOnce ==
    LET new == SubSeq(commands', Len(commands) + 1, Len(commands'))
        threshold == IF i + 1 <= Len(lines) THEN _get_indent_level(lines[i + 1]) ELSE 0
    IN  /\ i' > i /\ i' <= Len(lines) + 1
        /\ pc' = "parse"
        /\ SubSeq(commands', 1, Len(commands)) = commands
        /\ \A j \in DOMAIN new : new[j].line_number = i
        /\ IF IsSkipped(CurrentLine)
           THEN i' = i + 1 /\ new = <<>> /\ parse_context' = parse_context
           ELSE IF match_variable(CurrentLine).ok
           THEN i' = i + 1 /\ new = <<>>
           ELSE IF match_for_loop(CurrentLine).ok
           THEN /\ \A h \in (i + 1)..(i' - 1) : _get_indent_level(lines[h]) >= threshold
                /\ i' <= Len(lines) => _get_indent_level(lines[i']) < threshold
                /\ parse_context' = parse_context
           ELSE /\ i' = i + 1 /\ Len(new) <= 1 /\ parse_context' = parse_context
                /\ \A j \in DOMAIN new : new[j].variables = parse_context
\* C26: parsing ends on every script, and every iteration before that
\* handles the lines from i on exactly once: a skipped line, an assignment
\* or a generic command is one line; a loop takes its header and its body,
\* and the first line indented less than the body is the next top-level
\* line, with the outer scope.
C26_ParseTerminates ==
    /\ <>(pc = "idle")
    /\ [][(pc = "parse" /\ i <= Len(lines)) => LineHandledOnce]_vars
    /\ [][(pc = "parse" /\ i > Len(lines)) => (pc' = "idle" /\ commands' = commands)]_vars
\* a script with a line after its loop has been parsed to its end
C26_Witness ==
    /\ lines = ShadowScript /\ pc = "idle"
    /\ i = Len(lines) + 1
    /\ commands[3].line_number = 5
    /\ commands[3].variables = parse_context

\* the text ${n}
RefN == <<"$", "{", "n", "}">>
\* C27: the command handed to a handler has the options of the parsed record;
\* the filters of every select call of a QUERY are the where_ options of the
\* parsed record.  In a run of SET n 5, QUERY t --where_f ${n},
\* QUERY t --limit ${n}, the context binds n to 5 once the SET has succeeded
\* and still the filter value of the second command is the text ${n}, the
\* third command fails in int() on the text ${n}, and no query is executed
\* with a limit.
C27_OptionsNotExpanded ==
    /\ [][Dispatching =>
            /\ Dispatched.options = commands[cmd_index].options
            /\ \A j \in DOMAIN NewCalls :
                  NewCalls[j].kind = "select" =>
                      NewCalls[j].with = QueryFilters(commands[cmd_index].options)]_vars
    /\ [][(Dispatching /\ lines = OptionRefScript /\ cmd_index >= 2) =>
            /\ dict_get(context, <<"n">>, NoneValue) = IntValue(5)
            /\ NewCalls # <<>>
            /\ NewCalls[1] = Call("engine", "select", <<"t">>,
                                  IF cmd_index = 2 THEN <<[k |-> <<"f">>, v |-> RefN]>>
                                  ELSE <<>>)
            /\ \A j \in DOMAIN NewCalls : NewCalls[j].kind = "execute" => NewCalls[j].with = <<>>
            /\ cmd_index = 3 =>
                  /\ ~NewResult.success
                  /\ NewResult.error = StrValue(MsgInvalidLiteral \o <<"'">> \o RefN \o <<"'">>)
                  /\ \A j \in DOMAIN NewCalls : NewCalls[j].kind # "execute"]_vars
\* the three commands have run: the filtered query was executed with n bound,
\* and the query with the limit failed
C27_Witness ==
    /\ lines = OptionRefScript /\ Executed /\ pc = "idle"
    /\ Len(results) = 3 /\ Failed = {3}
    /\ dict_get(context, <<"n">>, NoneValue) = IntValue(5)
    /\ \E j \in DOMAIN calls :
          calls[j].kind = "select" /\ calls[j].with = <<[k |-> <<"f">>, v |-> RefN]>>

\* the text ${b}
RefB == <<"$", "{", "b", "}">>
\* a scope that binds a to the text ${b} and b to the text X, in either order
ChainedScope(d) ==
    /\ Len(d) = 2
    /\ dict_get(d, <<"a">>, NoneValue) = StrValue(RefB)
    /\ dict_get(d, <<"b">>, NoneValue) = StrValue(<<"X">>)
\* C28: substitution of ${a} in a scope that binds a to the text ${b} and b to
\* X gives the text ${b} whichever of the two was defined first (the text put
\* in for a is not substituted again), and substituting the result once more
\* against the same scope changes nothing.
C28_SubstitutionIsSimultaneous ==
    (pc = "idle" /\ ChainedScope(parse_context) /\ Len(commands) = 1
     /\ lines[Len(lines)] = Line(<<"P", "R", "I", "N", "T", " ", "$", "{", "a", "}">>)) =>
        /\ commands[1].args = <<RefB>>
        /\ ExpandText(ExpandText(VarRef(<<"a">>), parse_context), parse_context)
              = ExpandText(VarRef(<<"a">>), parse_context)

\* C29: no positional arg of a parsed command begins with a dash; a PRINT
\* succeeds, and the text it returns is the text it hands to the console: the
\* positional args of the expanded command joined by single spaces, with the
\* references to the run-time context replaced.  PRINT total -5 items prints
\* "total items" and PRINT a --k v b -x c prints "a b c": the dash tokens and
\* the value v of the option k are not in the text.
C29_PrintJoinsPositionalArgs ==
    /\ [](\A j \in DOMAIN commands : \A h \in DOMAIN commands[j].args :
             ~startswith(commands[j].args[h], <<"-">>))
    /\ [][(Dispatching /\ Route(Dispatched) = "PRINT") =>
            LET message == ExpandText(join(<<" ">>, Dispatched.args), context) IN
            /\ NewResult.success
            /\ NewResult.output = StrValue(message)
            /\ NewCalls[1] = Call("console", "print", message, <<>>)
            /\ context' = context]_vars
    /\ []((lines = DashPrintScript /\ Executed) =>
            /\ Len(results) >= 1 =>
                  results[1].output.s = <<"t", "o", "t", "a", "l", " ", "i", "t", "e", "m", "s">>
            /\ Len(results) >= 2 =>
                  results[2].output.s = <<"a", " ", "b", " ", "c">>)
\* both PRINT lines have run
C29_Witness ==
    /\ lines = DashPrintScript /\ Executed /\ pc = "idle"
    /\ Len(results) = 2 /\ Failed = {}
    /\ has_key(commands[1].options, <<"5">>)
    /\ dict_get(commands[2].options, <<"k">>, NoneValue) = StrValue(<<"v">>)
    /\ has_key(commands[2].options, <<"x">>)
    /\ \E j \in DOMAIN calls : calls[j] = Call("console", "print", <<"a", " ", "b", " ", "c">>, <<>>)

\* the command names and args of the records of a parse
NamesAndArgs == [j \in DOMAIN commands |-> <<commands[j].command, commands[j].args>>]
\* C30: a FOR header whose next line has no indentation takes every remaining
\* line of the script as its body: the step ends the parse position past the
\* last line, leaves the outer scope alone, and every record it appends has
\* the header's line number, one per item for each body line that yields a
\* record.  A FOR header on the last line appends nothing and parsing goes on
\* to its return.  FOR i IN 1..2: followed by the unindented lines PRINT a${i},
\* # c, an empty line, SET z = 1, PRINT b${i} parses into six records of line
\* 1 (the SET line as a generic command, z never bound in the scope).
C30_UnindentedBodyRunsToEnd ==
    /\ [][(ForLoopStep /\ i < Len(lines) /\ _get_indent_level(lines[i + 1]) = 0) =>
            /\ i' = Len(lines) + 1
            /\ CapturedBody = SubSeq(lines, i + 1, Len(lines))
            /\ parse_context' = parse_context
            /\ SubSeq(commands', 1, Len(commands)) = commands
            /\ \A j \in DOMAIN LoopCommands : LoopCommands[j].line_number = i
            /\ [j \in DOMAIN LoopCommands |-> dict_get(LoopCommands[j].variables,
                                                       match_for_loop(CurrentLine).name, NoneValue)]
                  = ExpectedLoopValues(ListItems(strip(match_for_loop(CurrentLine).value), parse_context),
                                       match_for_loop(CurrentLine).name, CapturedBody, parse_context)]_vars
    /\ [][(ForLoopStep /\ i = Len(lines)) =>
            /\ i' = Len(lines) + 1 /\ pc' = "parse"
            /\ commands' = commands /\ parse_context' = parse_context]_vars
    /\ []((lines = UnindentedBodyScript /\ pc = "idle") =>
            /\ parse_context = <<>>
            /\ \A j \in DOMAIN commands : commands[j].line_number = 1
            /\ NamesAndArgs =
                 << <<<<"P", "R", "I", "N", "T">>, <<<<"a", "1">>>>>>,
                    <<<<"S", "E", "T">>, <<<<"z">>, <<"=">>, <<"1">>>>>>,
                    <<<<"P", "R", "I", "N", "T">>, <<<<"b", "1">>>>>>,
                    <<<<"P", "R", "I", "N", "T">>, <<<<"a", "2">>>>>>,
                    <<<<"S", "E", "T">>, <<<<"z">>, <<"=">>, <<"1">>>>>>,
                    <<<<"P", "R", "I", "N", "T">>, <<<<"b", "2">>>>>> >>)
    /\ []((lines = HeaderLastScript /\ pc = "idle") =>
            /\ Len(commands) = 1 /\ commands[1].line_number = 1)
\* the parse of the script with the unindented body has returned six records
C30_Witness ==
    /\ lines = UnindentedBodyScript /\ pc = "idle"
    /\ i = Len(lines) + 1
    /\ Len(commands) = 6
    /\ commands[6].line_number = 1
====
